---- MODULE Spec2Model ----
(***************************************************************************)
(* A model of the PocketFlow orchestration kernel                          *)
(* (src/pockerflow-lixx/__init__.py): the node lifecycle prep/_exec/post,  *)
(* the retry engine of Node and AsyncNode, the batch node adapters, and    *)
(* the flow interpreters (Flow, BatchFlow, AsyncFlow, AsyncBatchFlow,      *)
(* AsyncParallelBatchFlow).                                                *)
(*                                                                         *)
(* A run is a set of tasks.  Task 0 is the caller of run()/run_async();    *)
(* tasks 1..MaxBatch are the traversals asyncio.gather runs for a parallel *)
(* batch flow.  Each task holds a stack of frames: the root frame is the   *)
(* call of _run/_run_async on the object the user runs, every further      *)
(* frame is one activation of _orch/_orch_async.  A frame holds the local  *)
(* variables of that activation and of the visit of its current node.      *)
(***************************************************************************)
EXTENDS Integers, Sequences, FiniteSets, TLC

\* ------------------------------------------------------------------ bounds
MaxRetries == 2      \* largest max_retries a node is constructed with
MaxItems == 2        \* longest item list a batch node's prep returns
MaxBatch == 2        \* longest parameter list a batch flow's prep returns
MaxVisits == 3       \* visits one _orch activation makes before the model stops it
MaxDepth == 3        \* frames on a task's stack: the caller, a flow, a nested flow
MaxWire == 3         \* edges the wiring phase adds before the run

\* ------------------------------------------------------------ the universe
PlainNodes == {"A", "C"}
FlowObjs == {"F", "G"}
Objects == PlainNodes \cup FlowObjs
NoNode == "none"

SyncNodeKinds == {"Node", "BatchNode"}
AsyncNodeKinds == {"AsyncNode", "AsyncBatchNode", "AsyncParallelBatchNode"}
NodeKinds == SyncNodeKinds \cup AsyncNodeKinds
BatchNodeKinds == {"BatchNode", "AsyncBatchNode", "AsyncParallelBatchNode"}
SyncFlowKinds == {"Flow", "BatchFlow"}
AsyncFlowKinds == {"AsyncFlow", "AsyncBatchFlow", "AsyncParallelBatchFlow"}
FlowKinds == SyncFlowKinds \cup AsyncFlowKinds
BatchFlowKinds == {"BatchFlow", "AsyncBatchFlow", "AsyncParallelBatchFlow"}

\* isinstance(x, AsyncNode): the classes that have AsyncNode in their MRO
IsAsyncNode(k) == k \in AsyncNodeKinds \cup AsyncFlowKinds

\* isinstance of Flow: the classes whose _run/_run_async walks a graph
IsFlow(k) == k \in FlowKinds

Tasks == 0..MaxBatch
Items == {"x", "y"}
PrepValue == "p"

\* Action labels a post may return.  Python's None is NoneAct.
NoneAct == "<None>"
DefaultLabel == "default"
Labels == {DefaultLabel, "a"}
PostActions == {NoneAct, "", DefaultLabel, "a", "b"}

\* Values produced by execute, the fallback hook and raised exceptions: a tag, the
\* argument the call received and the attempt index the call belongs to.
NoneVal == <<"none", "", 0>>
OkVal(arg, k) == <<"ok", arg, k>>
ExcVal(arg, k) == <<"exc", arg, k>>
FbVal(arg, exc) == <<"fb", arg, exc[3]>>
PrepErr == <<"exc", "prep", 0>>      \* raised by prep / prep_async
PostErr == <<"exc", "post", 0>>      \* raised by post / post_async
CancelledErr == <<"cancel", "", 0>>   \* asyncio.CancelledError, a BaseException
UseRunAsyncErr == <<"exc", "Use run_async for AsyncNode.", 0>>   \* AsyncNode._run

\* Parameter maps: total over Keys, Absent marking a key the dict does not hold.
Keys == {"k", "j"}
Absent == "absent"
ParamVals == {"v0", "v1"}
Dirty == "dirty"
EmptyMap == [key \in Keys |-> Absent]
IsEmptyMap(m) == \A key \in Keys : m[key] = Absent

\* {**a, **b}
Merge(a, b) == [key \in Keys |-> IF b[key] # Absent THEN b[key] ELSE a[key]]

\* --------------------------------------------------------------- dict heap
\* Dicts are objects: a field holds a reference, the heap holds the content.
\*   init: the dict an object's constructor (or a set_params before the run) gave it
\*   np:   node_params of the _orch activation of task t at depth d
\*   new:  a dict a node's execute assigned to self.params in task t at depth d
Ref(k, o, t, d) == [k |-> k, o |-> o, t |-> t, d |-> d]
InitRef(o) == Ref("init", o, 0, 0)
NpRef(t, d) == Ref("np", "", t, d)
NewRef(t, d) == Ref("new", "", t, d)
NoRef == Ref("null", "", 0, 0)
Refs == {InitRef(o) : o \in Objects}
          \cup {NpRef(t, d) : t \in Tasks, d \in 1..MaxDepth}
          \cup {NewRef(t, d) : t \in Tasks, d \in 1..MaxDepth}
          \cup {NoRef}

VARIABLES
  kind,          \* object -> class
  max_retries,   \* object -> Node.max_retries
  wait,          \* object -> Node.wait
  successors,    \* object -> label -> object or NoNode (BaseNode.successors)
  start_node,    \* flow object -> Flow.start_node
  objParams,     \* object -> reference held by the params field of the original
  objRetry,      \* object -> cur_retry field of the original
  heap,          \* reference -> content of the dict
  params0,       \* object -> content of its params when the run began
  batches,       \* flow object -> the list of parameter maps its prep returns
  tasks,         \* task -> [st, stack, res, err]
  shared,        \* the shared state: the log the nodes' posts append to
  gathered       \* whether asyncio.gather of the parallel batch flow has returned or raised

config == <<kind, max_retries, wait, successors, start_node, params0, batches>>
vars == <<kind, max_retries, wait, successors, start_node, objParams, objRetry,
          heap, params0, batches, tasks, shared, gathered>>

\* ------------------------------------------------------------------ frames
\* One coroutine of the retry engine: Node._exec / AsyncNode._exec on one argument.
\*   st: new (not started) | try (about to call exec) | sleep | fb (about to call
\*       the fallback) | done | raised
NewCo(arg) ==
  [arg |-> arg, st |-> "new", k |-> 0, val |-> NoneVal, ex |-> NoneVal,
   nExec |-> 0, nFail |-> 0, nFb |-> 0, nSleep |-> 0, firstK |-> -1,
   fbArg |-> "", fbExc |-> NoneVal, seenRetry |-> -1,
   log |-> <<>>]            \* the calls made for the argument, in order

NoPrep == [none |-> TRUE, seq |-> <<>>]
NoExecRes == [batch |-> FALSE, val |-> NoneVal, seq |-> <<>>]

BlankFrame ==
  [root |-> FALSE,          \* the caller's frame: cur is the object run() was called on
   cur |-> NoNode,          \* current_node
   onCopy |-> FALSE,        \* current_node is a copy.copy of the wired object
   cparams |-> NoRef,       \* current_node.params (the copy's field)
   cretry |-> 0,            \* current_node.cur_retry (the copy's field)
   pc |-> "idle",           \* prep | exec | orch | post | return | done | raised
   np |-> NoRef,            \* node_params
   sel |-> EmptyMap,        \* content of node_params when the activation began
   batch |-> 0,             \* index in the prepared list of the traversal this is (0: none)
   last |-> NoneAct,        \* last_action
   prev |-> NoNode,         \* the node whose visit set last_action
   visits |-> 0,            \* visits begun by this activation
   pr |-> NoPrep,           \* prep_result of the visit
   co |-> <<>>,             \* the retry coroutines of the visit
   order |-> <<>>,          \* coroutine indexes in completion order
   er |-> NoExecRes,        \* exec_result of the visit
   got |-> NoExecRes,       \* exec_res the visit's post received
   nExec |-> 0,             \* calls of exec in the visit
   ph |-> <<>>,             \* the phases of the visit that have begun, in order
   prevPh |-> <<>>,         \* the phases the previous visit had run when this one began
   async |-> FALSE,         \* the activation is _orch_async (the call is run_async)
   orchRes |-> NoneAct,     \* flow visit: the value _orch returned
   posted |-> NoneAct,      \* the action the post of the last finished visit returned
   innerPosted |-> NoneAct, \* flow visit: `posted` of the _orch activation that returned
   saw |-> {},              \* the shared state as it was when the activation began
   ended |-> 0,             \* batch flow: traversals that have returned
   cancelled |-> FALSE,     \* a cancellation was delivered inside this visit
   via |-> "",              \* the method the orchestrator called for the visit
   adv |-> FALSE,           \* a copy visited by this activation had its cur_retry advanced
   warn |-> FALSE,          \* the last get_next_node of the activation warned "Flow ends"
   bi |-> 0]                \* batch flow: index of the traversal in progress

Top(t) == tasks[t].stack[Len(tasks[t].stack)]
Depth(t) == Len(tasks[t].stack)
Running(t) == tasks[t].st = "running" /\ Depth(t) > 0
WithTop(t, f) ==
  [tasks EXCEPT ![t].stack = [tasks[t].stack EXCEPT ![Len(tasks[t].stack)] = f]]

IdleTask == [st |-> "idle", stack |-> <<>>, res |-> NoneAct, err |-> NoneVal]

\* The class of an object; current_node may be None.
KindOf(n) == IF n \in Objects THEN kind[n] ELSE "NoneType"

\* ---------------------------------------------------------- the lifecycle
\* _run with execute left out.
NextPhaseSkipping(p) == "post"

\* BaseNode._run / AsyncNode._run_async / Flow._run: prep, then _exec (for a flow:
\* _orch), then post.
NextPhase(p) == IF p = "prep" THEN "exec" ELSE "post"

\* _orch_async without the isinstance test: _run_async for every node.
VisitAsyncAlways(f) == f.async

\* The method current_node._run / _run_async resolves to for a visit made by a
\* sync activation (_orch calls _run) or an async one (_orch_async calls
\* _run_async on an AsyncNode instance and _run on anything else).
VisitAsync(f) == f.async /\ IsAsyncNode(KindOf(f.cur))

\* ------------------------------------------------------- the retry engine
\* A range that always holds a first attempt.
RetryRangeAtLeastOne(N) == 0..(IF N < 1 THEN 0 ELSE N - 1)

\* range(self.max_retries): the attempt indexes of one _exec call
RetryRange(N) == 0..(N - 1)

\* The last-attempt test one iteration early.
IsLastAttemptEarly(k, N) == k = N - 2

\* self.cur_retry == self.max_retries - 1  /  i == self.max_retries - 1
IsLastAttempt(k, N) == k = N - 1

\* The loop variable carried over from the previous item instead of restarted.
FirstAttemptCarried(prevK) == prevK

\* The index the for loop starts at, whatever the previous call of _exec left in
\* the loop variable (prevK).
FirstAttempt(prevK) == 0

\* Node._exec iterates with the field self.cur_retry as its loop variable;
\* AsyncNode._exec iterates with the local i and leaves the field alone.
LoopVarIsField(kd) == kd \in SyncNodeKinds

\* The sleep made whatever the delay is.
SleepsAlways(w) == TRUE

\* if self.wait > 0: sleep
SleepsBetween(w) == w > 0

\* The async handler without its sleep.
OnFailureAsyncNoSleep(i, N, w) == IF IsLastAttempt(i, N) THEN "fb" ELSE "next"

\* Node._exec's except clause: the fallback on the last attempt, else
\* time.sleep(self.wait) when wait > 0, else the next iteration.
OnFailureSync(k, N, w) ==
  IF IsLastAttempt(k, N) THEN "fb" ELSE IF SleepsBetween(w) THEN "sleep" ELSE "next"

\* AsyncNode._exec's except clause: the fallback on the last attempt, else
\* await asyncio.sleep(self.wait) when wait > 0, else the next iteration.
OnFailureAsync(i, N, w) ==
  IF IsLastAttempt(i, N) THEN "fb" ELSE IF SleepsBetween(w) THEN "sleep" ELSE "next"

\* The except clause of the engine the class resolves _exec to.
OnFailure(kd, k, N, w) ==
  IF kd \in SyncNodeKinds THEN OnFailureSync(k, N, w) ELSE OnFailureAsync(k, N, w)

\* _exec is entered on one argument: the loop takes its first index, or, when the
\* range is empty, falls through and returns None.
StartCo(c, N, prevK) ==
  IF FirstAttempt(prevK) \in RetryRange(N)
  THEN [c EXCEPT !.st = "try", !.k = FirstAttempt(prevK), !.firstK = FirstAttempt(prevK)]
  ELSE [c EXCEPT !.st = "done", !.val = NoneVal]

Finished(c) == c.st \in {"done", "raised"}

\* BatchNode._exec's list comprehension and AsyncBatchNode._exec's results.append
\* collect the results in the order the calls return.
AppendResults(co, order) == [i \in 1..Len(order) |-> co[order[i]].val]

\* Results collected as the awaitables complete.
GatherAsCompleted(co, order) == [i \in 1..Len(order) |-> co[order[i]].val]

\* asyncio.gather returns the results in the order of the awaitables it was given.
GatherResults(co, order) == [i \in 1..Len(co) |-> co[i].val]

\* _exec without its return statements: the value is lost.
ExecResultDropped(kd, co, order) ==
  [batch |-> kd \in BatchNodeKinds, val |-> NoneVal, seq |-> <<>>]

\* The value _exec returns once every call on an argument has returned.
ExecResult(kd, co, order) ==
  CASE kd = "AsyncParallelBatchNode" ->
         [batch |-> TRUE, val |-> NoneVal, seq |-> GatherResults(co, order)]
    [] kd \in {"BatchNode", "AsyncBatchNode"} ->
         [batch |-> TRUE, val |-> NoneVal, seq |-> AppendResults(co, order)]
    [] OTHER -> [batch |-> FALSE, val |-> co[1].val, seq |-> <<>>]

\* (items or []) and `if not items: return []`: None and the empty list give no calls.
ItemsOf(pr) == IF pr.none THEN <<>> ELSE pr.seq

\* The sequential variants enter the call on the next item when one returns.
\* With an empty retry range calls return at once, one after the other.
RECURSIVE EnterFrom(_, _, _, _, _)
EnterFrom(co, order, i, N, prevK) ==
  IF i > Len(co) THEN [co |-> co, order |-> order]
  ELSE LET c == StartCo(co[i], N, prevK)
           co2 == [co EXCEPT ![i] = c]
       IN  IF c.st = "done" THEN EnterFrom(co2, Append(order, i), i + 1, N, c.k)
           ELSE [co |-> co2, order |-> order]

\* The coroutines _exec makes for a prep result.  A batch node makes one per item;
\* the sequential variants enter them one after the other, asyncio.gather
\* schedules all of them at once.
InitialCos(kd, pr, N) ==
  LET args == IF kd \in BatchNodeKinds THEN ItemsOf(pr) ELSE <<PrepValue>>
      fresh == [i \in 1..Len(args) |-> NewCo(args[i])]
      all == [i \in 1..Len(args) |-> StartCo(fresh[i], N, 0)]
  IN  IF kd = "AsyncParallelBatchNode"
      THEN [co |-> all,
            order |-> IF \A i \in 1..Len(args) : all[i].st = "done"
                      THEN [i \in 1..Len(args) |-> i] ELSE <<>>]
      ELSE EnterFrom(fresh, <<>>, 1, N, 0)

\* Coroutine j of the visit has returned: record it, and let a sequential batch
\* go on to the next item.
AfterReturn(kd, co, order, j, N) ==
  IF kd \in {"BatchNode", "AsyncBatchNode"}
  THEN EnterFrom(co, Append(order, j), j + 1, N, co[j].k)
  ELSE [co |-> co, order |-> Append(order, j)]

\* The frame once its coroutines have changed: when all have returned, _exec
\* returns and the visit goes on to post.
Settle(f, kd) ==
  IF \A i \in 1..Len(f.co) : f.co[i].st = "done"
  THEN [f EXCEPT !.pc = NextPhase("exec"), !.er = ExecResult(kd, f.co, f.order)]
  ELSE f

\* The cur_retry field of the object the visit runs on.
VisitRetry(f) == IF f.onCopy THEN f.cretry ELSE objRetry[f.cur]

\* The coroutine (if any) that stands at the head of a loop iteration: the one
\* whose loop variable the sync engine has just stored in self.cur_retry.
ActiveK(co, dflt) ==
  IF \E i \in 1..Len(co) : co[i].st \in {"try", "sleep", "fb"}
  THEN co[CHOOSE i \in 1..Len(co) : co[i].st \in {"try", "sleep", "fb"}].k
  ELSE IF Len(co) > 0 /\ co[Len(co)].firstK >= 0 THEN co[Len(co)].k
  ELSE dflt

\* Store the frame f2 as the top frame of task t together with the write of
\* self.cur_retry that Node._exec's loop makes on the visited object.
StoreVisit(t, f2, kd) ==
  LET r == IF LoopVarIsField(kd) THEN ActiveK(f2.co, VisitRetry(f2)) ELSE VisitRetry(f2)
  IN  /\ tasks' = WithTop(t, IF f2.onCopy
                                THEN [f2 EXCEPT !.cretry = r, !.adv = @ \/ r > 0]
                                ELSE f2)
      /\ objRetry' = IF f2.onCopy THEN objRetry ELSE [objRetry EXCEPT ![f2.cur] = r]

\* The exception swallowed by _run, which goes on to post.
RaiseSwallowed(t, f2, exc) ==
  [WithTop(t, [f2 EXCEPT !.pc = "post"]) EXCEPT ![t].err = exc]

\* The exception caught by the orchestrator, which ends the traversal normally.
RaiseEndsTraversal(t, f2, exc) ==
  [WithTop(t, [f2 EXCEPT !.pc = "return", !.cur = NoNode, !.co = <<>>, !.order = <<>>,
                         !.ph = <<>>]) EXCEPT ![t].err = exc]

\* The exception leaves the task: nothing further of the task runs.
Raise(t, f2, exc) ==
  [WithTop(t, [f2 EXCEPT !.pc = "raised"]) EXCEPT ![t].st = "failed", ![t].err = exc]

\* What prep may return: a value for a plain node, None or a list for a batch node.
SeqsUpTo(S, n) == UNION {[1..m -> S] : m \in 0..n}
PrepResults(kd) ==
  IF kd \in BatchNodeKinds
  THEN {NoPrep} \cup {[none |-> FALSE, seq |-> s] : s \in SeqsUpTo(Items, MaxItems)}
  ELSE {[none |-> FALSE, seq |-> <<PrepValue>>]}

\* A coroutine of the visit may take a step: its visit is in _exec, or it is one of
\* the tasks asyncio.gather left running when a sibling raised.
CoCanStep(t, j) ==
  /\ Depth(t) > 0
  /\ KindOf(Top(t).cur) \in NodeKinds
  /\ j \in 1..Len(Top(t).co)
  /\ \/ Running(t) /\ Top(t).pc = "exec"
     \/ /\ KindOf(Top(t).cur) = "AsyncParallelBatchNode"
        /\ Top(t).pc = "raised"
        /\ tasks[t].st = "failed"

\* prep / prep_async, then the entry into _exec
NodePrep(t) ==
  /\ Running(t)
  /\ Top(t).cur # NoNode
  /\ KindOf(Top(t).cur) \in NodeKinds
  /\ KindOf(Top(t).cur) \in AsyncNodeKinds => Top(t).async
  /\ Top(t).pc = "prep"
  /\ \E pr \in PrepResults(KindOf(Top(t).cur)) :
       LET f == Top(t)
           kd == KindOf(f.cur)
           N == max_retries[f.cur]
           ent == InitialCos(kd, pr, N)
           nph == NextPhase("prep")
           f2 == [f EXCEPT !.pc = nph, !.pr = pr, !.co = ent.co, !.order = ent.order,
                           !.ph = IF nph = "exec" THEN <<"prep", "exec">> ELSE <<"prep">>]
       IN  StoreVisit(t, IF nph = "exec" THEN Settle(f2, kd) ELSE f2, kd)
  /\ UNCHANGED <<config, objParams, heap, shared, gathered>>

\* `except Exception` catching every exception, asyncio.CancelledError included.
CaughtByRetryAll(exc) == TRUE

\* except Exception as e: the handler of the retry loop takes the exceptions that
\* derive from Exception; asyncio.CancelledError derives from BaseException.
CaughtByRetry(exc) == exc[1] = "exc"

\* The host cancels the task while a visit of an async node is suspended in an
\* await: in prep_async, in an attempt of exec_async, in asyncio.sleep, in the
\* fallback or in post_async.  CancelledError is raised at that await; inside an
\* attempt it meets the retry loop's handler.
Cancel(t) ==
  /\ Running(t)
  /\ Top(t).cur # NoNode
  /\ KindOf(Top(t).cur) \in AsyncNodeKinds
  /\ Top(t).async
  /\ Top(t).pc \in {"prep", "exec", "post"}
  /\ LET f == [Top(t) EXCEPT !.cancelled = TRUE]
         inAttempt == f.pc = "exec" /\ Len(f.co) = 1 /\ f.co[1].st = "try"
         c == IF inAttempt THEN f.co[1] ELSE NewCo(PrepValue)
         N == max_retries[f.cur]
         c1 == [c EXCEPT !.nExec = @ + 1, !.nFail = @ + 1, !.ex = CancelledErr,
                         !.log = Append(@, "exec_fail")]
         then == OnFailure(KindOf(f.cur), c.k, N, wait[f.cur])
         c2 == IF then = "fb" THEN [c1 EXCEPT !.st = "fb"]
               ELSE IF then = "sleep" THEN [c1 EXCEPT !.st = "sleep"]
               ELSE [c1 EXCEPT !.k = c.k + 1]
     IN  IF inAttempt /\ CaughtByRetry(CancelledErr)
         THEN tasks' = WithTop(t, [f EXCEPT !.co[1] = c2, !.nExec = @ + 1])
         ELSE tasks' = [Raise(t, f, CancelledErr) EXCEPT ![t].st = "cancelled"]
  /\ UNCHANGED <<config, objParams, objRetry, heap, shared, gathered>>

\* prep / prep_async raises: _run has no handler, the exception leaves it
NodePrepRaise(t) ==
  /\ Running(t)
  /\ Top(t).cur # NoNode
  /\ KindOf(Top(t).cur) \in NodeKinds
  /\ KindOf(Top(t).cur) \in AsyncNodeKinds => Top(t).async
  /\ Top(t).pc = "prep"
  /\ tasks' = Raise(t, [Top(t) EXCEPT !.ph = <<"prep">>], PrepErr)
  /\ UNCHANGED <<config, objParams, objRetry, heap, shared, gathered>>

\* post / post_async raises: the exception leaves _run
NodePostRaise(t) ==
  /\ Running(t)
  /\ Top(t).cur # NoNode
  /\ KindOf(Top(t).cur) \in NodeKinds
  /\ Top(t).pc = "post"
  /\ tasks' = Raise(t, [Top(t) EXCEPT !.got = Top(t).er, !.ph = Append(@, "post")], PostErr)
  /\ UNCHANGED <<config, objParams, objRetry, heap, shared, gathered>>

\* exec / exec_async returns a value
ExecOk(t, j) ==
  /\ CoCanStep(t, j)
  /\ Top(t).co[j].st = "try"
  /\ LET f == Top(t)
         kd == KindOf(f.cur)
         c == f.co[j]
         c2 == [c EXCEPT !.st = "done", !.val = OkVal(c.arg, c.k), !.nExec = @ + 1,
                         !.seenRetry = VisitRetry(f), !.log = Append(@, "exec_ok")]
         nx == AfterReturn(kd, [f.co EXCEPT ![j] = c2], f.order, j, max_retries[f.cur])
         f2 == [f EXCEPT !.co = nx.co, !.order = nx.order, !.nExec = @ + 1]
     IN  IF f.pc = "raised"
         THEN tasks' = WithTop(t, f2) /\ UNCHANGED objRetry
         ELSE StoreVisit(t, Settle(f2, kd), kd)
  /\ UNCHANGED <<config, objParams, heap, shared, gathered>>

\* exec / exec_async raises: retry, sleep first, or go to the fallback
ExecFail(t, j) ==
  /\ CoCanStep(t, j)
  /\ Top(t).co[j].st = "try"
  /\ LET f == Top(t)
         kd == KindOf(f.cur)
         c == f.co[j]
         N == max_retries[f.cur]
         c1 == [c EXCEPT !.nExec = @ + 1, !.nFail = @ + 1, !.ex = ExcVal(c.arg, c.k),
                         !.seenRetry = VisitRetry(f), !.log = Append(@, "exec_fail")]
         then == OnFailure(kd, c.k, N, wait[f.cur])
         c2 == IF then = "fb" THEN [c1 EXCEPT !.st = "fb"]
               ELSE IF then = "sleep" THEN [c1 EXCEPT !.st = "sleep"]
               ELSE IF c.k + 1 \in RetryRange(N) THEN [c1 EXCEPT !.k = c.k + 1]
               ELSE [c1 EXCEPT !.st = "done", !.val = NoneVal]
         nx == IF c2.st = "done"
               THEN AfterReturn(kd, [f.co EXCEPT ![j] = c2], f.order, j, N)
               ELSE [co |-> [f.co EXCEPT ![j] = c2], order |-> f.order]
         f2 == [f EXCEPT !.co = nx.co, !.order = nx.order, !.nExec = @ + 1]
     IN  IF f.pc = "raised"
         THEN tasks' = WithTop(t, f2) /\ UNCHANGED objRetry
         ELSE StoreVisit(t, Settle(f2, kd), kd)
  /\ UNCHANGED <<config, objParams, heap, shared, gathered>>

\* time.sleep(self.wait) / await asyncio.sleep(self.wait) returns
Sleep(t, j) ==
  /\ CoCanStep(t, j)
  /\ Top(t).co[j].st = "sleep"
  /\ LET f == Top(t)
         kd == KindOf(f.cur)
         c == f.co[j]
         N == max_retries[f.cur]
         c1 == [c EXCEPT !.nSleep = @ + 1, !.log = Append(@, "sleep")]
         c2 == IF c.k + 1 \in RetryRange(N) THEN [c1 EXCEPT !.st = "try", !.k = c.k + 1]
               ELSE [c1 EXCEPT !.st = "done", !.val = NoneVal]
         nx == IF c2.st = "done"
               THEN AfterReturn(kd, [f.co EXCEPT ![j] = c2], f.order, j, N)
               ELSE [co |-> [f.co EXCEPT ![j] = c2], order |-> f.order]
         f2 == [f EXCEPT !.co = nx.co, !.order = nx.order]
     IN  IF f.pc = "raised"
         THEN tasks' = WithTop(t, f2) /\ UNCHANGED objRetry
         ELSE StoreVisit(t, Settle(f2, kd), kd)
  /\ UNCHANGED <<config, objParams, heap, shared, gathered>>

\* exec_fallback / exec_fallback_async returns a value
FallbackReturn(t, j) ==
  /\ CoCanStep(t, j)
  /\ Top(t).co[j].st = "fb"
  /\ LET f == Top(t)
         kd == KindOf(f.cur)
         c == f.co[j]
         c2 == [c EXCEPT !.st = "done", !.val = FbVal(c.arg, c.ex), !.nFb = @ + 1,
                         !.fbArg = c.arg, !.fbExc = c.ex, !.log = Append(@, "fb_ok")]
         nx == AfterReturn(kd, [f.co EXCEPT ![j] = c2], f.order, j, max_retries[f.cur])
         f2 == [f EXCEPT !.co = nx.co, !.order = nx.order]
     IN  IF f.pc = "raised"
         THEN tasks' = WithTop(t, f2) /\ UNCHANGED objRetry
         ELSE StoreVisit(t, Settle(f2, kd), kd)
  /\ UNCHANGED <<config, objParams, heap, shared, gathered>>

\* exec_fallback / exec_fallback_async raises (the default re-raises the exception)
FallbackRaise(t, j) ==
  /\ CoCanStep(t, j)
  /\ Top(t).co[j].st = "fb"
  /\ LET f == Top(t)
         c == f.co[j]
         c2 == [c EXCEPT !.st = "raised", !.nFb = @ + 1, !.fbArg = c.arg, !.fbExc = c.ex,
                         !.log = Append(@, "fb_raise")]
         f2 == [f EXCEPT !.co[j] = c2]
     IN  tasks' = IF f.pc = "raised" THEN WithTop(t, f2) ELSE Raise(t, f2, c.ex)
  /\ UNCHANGED <<config, objParams, objRetry, heap, shared, gathered>>

\* post / post_async of a node: it receives the exec result and returns an action.
\* In the caller's frame the action is the value run()/run_async() returns.
NodePostRoot(t) ==
  /\ Running(t)
  /\ Top(t).root
  /\ KindOf(Top(t).cur) \in NodeKinds
  /\ Top(t).pc = "post"
  /\ \E a \in PostActions :
       LET f == Top(t)
           f2 == [f EXCEPT !.pc = "done", !.got = f.er, !.ph = Append(@, "post"),
                           !.last = a, !.posted = a]
       IN  tasks' = [WithTop(t, f2) EXCEPT ![t].st = "done", ![t].res = a]
  /\ shared' = shared \cup {Top(t).batch}
  /\ UNCHANGED <<config, objParams, objRetry, heap, gathered>>

\* node.run(shared) / await node.run_async(shared) on a node that stands alone:
\* _run / _run_async runs on the object itself.
RunNode(n) ==
  /\ \A t \in Tasks : tasks[t].st = "idle"
  /\ kind[n] \in NodeKinds
  /\ tasks' = [tasks EXCEPT ![0] =
       [st |-> "running", res |-> NoneAct, err |-> NoneVal,
        stack |-> <<[BlankFrame EXCEPT !.root = TRUE, !.cur = n, !.pc = "prep",
                                       !.async = IsAsyncNode(kind[n])]>>]]
  /\ UNCHANGED <<config, objParams, objRetry, heap, shared, gathered>>

\* ----------------------------------------------------------------- wiring
OuterNodes == {"A", "G"}     \* the nodes wired into flow F
InnerNodes == {"C"}               \* the nodes wired into the nested flow G

\* BaseNode.next(node, action): self.successors[action] = node
NextOp(succ, from, to, label) ==
  [succ EXCEPT ![from] = [l \in (DOMAIN succ[from]) \cup {label} |->
                            IF l = label THEN to ELSE succ[from][l]]]

EdgeCount == Cardinality({ol \in Objects \X Labels : ol[2] \in DOMAIN successors[ol[1]]})

\* from.next(to, label), called before the flow is run
Wire(from, to, label) ==
  /\ \A t \in Tasks : tasks[t].st = "idle"
  /\ EdgeCount < MaxWire
  /\ \/ from \in OuterNodes /\ to \in OuterNodes
     \/ from \in InnerNodes /\ to \in InnerNodes
  /\ successors' = NextOp(successors, from, to, label)
  /\ UNCHANGED <<kind, max_retries, wait, start_node, params0, batches,
                 objParams, objRetry, heap, tasks, shared, gathered>>

\* ------------------------------------------------------- the flow interpreter
\* The lookup key without the fallback to "default".
LookupLabelRaw(a) == a

\* action or "default"
LookupLabel(a) == IF a \in {NoneAct, ""} THEN DefaultLabel ELSE a

\* Flow.get_next_node: current_node.successors.get(action or "default")
GetNextNode(n, a) ==
  IF LookupLabel(a) \in DOMAIN successors[n] THEN successors[n][LookupLabel(a)] ELSE NoNode

\* The orchestrator visiting the wired objects themselves.
VisitsOriginal == FALSE

\* copy.copy(self.start_node) / copy.copy(self.get_next_node(...)): a visit runs on
\* a shallow copy of the wired object.
CopyOnVisit == TRUE

\* The params field of the object a visit runs on.
VisitParams(f) == IF f.onCopy THEN f.cparams ELSE objParams[f.cur]

\* The loop body's head for node n: current_node is the copy of n, and
\* current_node.set_params(node_params) stores the activation's dict in it.
BeginVisit(f, n) ==
  LET g == [f EXCEPT !.cur = n, !.onCopy = CopyOnVisit, !.cparams = f.np,
                     !.cretry = objRetry[n],
                     !.pc = "prep", !.visits = @ + 1, !.pr = NoPrep, !.co = <<>>,
                     !.order = <<>>,
                     !.er = NoExecRes, !.got = NoExecRes, !.nExec = 0, !.prevPh = f.ph,
                     !.ph = <<>>, !.orchRes = NoneAct, !.bi = 0, !.ended = 0]
  IN  [g EXCEPT !.via = IF VisitAsync(g) THEN "_run_async" ELSE "_run"]

\* The params fields of the wired objects after set_params on the visited object.
ParamsAfterBegin(ref, n) ==
  IF CopyOnVisit \/ n = NoNode THEN objParams ELSE [objParams EXCEPT ![n] = ref]

\* The warning given whenever no successor is found.
FlowEndsWarningAlways(n, a) == GetNextNode(n, a) = NoNode

\* Flow.get_next_node: `if not next_node and current_node.successors:` warns
\* "Flow ends: '<action>' not found in [<keys>]".
FlowEndsWarning(n, a) == GetNextNode(n, a) = NoNode /\ DOMAIN successors[n] # {}

\* last_action = current_node._run(shared) has returned a; the loop takes the
\* successor, or ends when there is none.
Advance(f, a) ==
  LET g == [f EXCEPT !.last = a, !.posted = a, !.prev = f.cur, !.ph = Append(@, "post"),
                     !.warn = FlowEndsWarning(f.cur, a)]
      n == GetNextNode(f.cur, a)
  IN  IF n = NoNode
      THEN [g EXCEPT !.cur = NoNode, !.pc = "return", !.prevPh = g.ph, !.ph = <<>>,
                     !.pr = NoPrep, !.co = <<>>, !.order = <<>>, !.er = NoExecRes,
                     !.cparams = NoRef, !.cretry = 0, !.onCopy = FALSE]
      ELSE BeginVisit(g, n)

\* node_params aliasing the flow's own dict.
OrchParamsRefShared(t, d, selfRef) == selfRef

\* params or {**self.params}: the dict object node_params names is the dict the
\* caller built for this traversal or a fresh copy, never the flow's own dict.
OrchParamsRef(t, d, selfRef) == NpRef(t, d)

\* params or {**self.params}: an empty (falsy) or missing params gives the copy
OrchParams(given, params, selfContent) ==
  IF given /\ ~IsEmptyMap(params) THEN params ELSE selfContent

\* The frame of an activation of _orch / _orch_async up to its first visit.
NewOrch(ref, content, isAsync, batch, start) ==
  LET f == [BlankFrame EXCEPT !.np = ref, !.sel = content, !.async = isAsync,
                              !.batch = batch, !.saw = shared]
  IN  IF start = NoNode THEN [f EXCEPT !.pc = "return"] ELSE BeginVisit(f, start)

\* The _run method a flow object's class resolves to.  Called through
\* _run_async: AsyncFlow, AsyncBatchFlow and AsyncParallelBatchFlow each define
\* their own.  Called through _run: the MRO finds Flow._run for Flow and AsyncFlow
\* and BatchFlow._run for the batch flows.
FlowImpl(kd, la) ==
  IF la THEN (CASE kd = "AsyncFlow" -> "flow"
                [] kd = "AsyncBatchFlow" -> "batch"
                [] OTHER -> "parallel")
  ELSE IF kd \in {"Flow", "AsyncFlow"} THEN "flow" ELSE "batch"

\* self.prep(shared) or [] / await self.prep_async(shared) or []: the list the
\* user's prep returns.  The async batch flows override prep_async; run through
\* the sync _run they call BaseNode.prep, which returns None.
PrepList(o, kd, la) == IF la \/ kd = "BatchFlow" THEN batches[o] ELSE <<>>

\* Flow.post / AsyncFlow.post_async: return exec_res
FlowPostResult(exec_res) == exec_res

\* The value _orch returns without its return statement.
OrchResultLost(f) == NoneAct

\* return last_action
OrchResult(f) == f.last

Push(t, f, g) == [tasks EXCEPT ![t].stack = Append([tasks[t].stack EXCEPT ![Len(tasks[t].stack)] = f], g)]

\* A flow's run begins: its prep, then the call of _orch for the traversal (the
\* first traversal of a batch flow).
FlowPrep(t) ==
  /\ Running(t)
  /\ Top(t).cur # NoNode
  /\ KindOf(Top(t).cur) \in FlowKinds
  /\ Top(t).pc = "prep"
  /\ Depth(t) < MaxDepth
  /\ LET f == Top(t)
         o == f.cur
         la == VisitAsync(f)
         impl == FlowImpl(kind[o], la)
         list == IF impl = "flow" THEN <<>> ELSE PrepList(o, kind[o], la)
         selfRef == VisitParams(f)
         ref == OrchParamsRef(t, Depth(t) + 1, selfRef)
         content == IF impl = "flow" THEN OrchParams(FALSE, EmptyMap, heap[selfRef])
                    ELSE IF Len(list) > 0
                         THEN OrchParams(TRUE, Merge(heap[selfRef], list[1]), heap[selfRef])
                         ELSE EmptyMap
         f1 == [f EXCEPT !.ph = <<"prep">>]
     IN  /\ impl \in {"flow", "batch"}
         /\ IF impl = "batch" /\ Len(list) = 0
            THEN /\ tasks' = WithTop(t, [f1 EXCEPT !.pc = "post", !.orchRes = NoneAct,
                                                    !.ph = <<"prep", "exec">>])
                 /\ UNCHANGED <<heap, objParams>>
            ELSE /\ tasks' = Push(t, [f1 EXCEPT !.pc = "orch", !.ph = <<"prep", "exec">>,
                                                 !.bi = IF impl = "batch" THEN 1 ELSE 0],
                                  NewOrch(ref, content, la,
                                          IF impl = "batch" THEN 1 ELSE f.batch,
                                          start_node[o]))
                 /\ heap' = [heap EXCEPT ![ref] = content]
                 /\ objParams' = ParamsAfterBegin(ref, start_node[o])
  /\ UNCHANGED <<config, objRetry, shared, gathered>>

\* _orch / _orch_async returns to the flow's _run: a flow goes on to its post, a
\* batch flow to the traversal for the next parameter map, or to its post after
\* the last one.
OrchReturn(t) ==
  /\ Running(t)
  /\ Depth(t) >= 2
  /\ Top(t).pc = "return"
  /\ LET g == Top(t)
         d == Depth(t)
         below == SubSeq(tasks[t].stack, 1, d - 1)
         f == below[d - 1]
         o == f.cur
         la == VisitAsync(f)
         impl == FlowImpl(kind[o], la)
         list == IF impl = "flow" THEN <<>> ELSE PrepList(o, kind[o], la)
         selfRef == VisitParams(f)
         ref == OrchParamsRef(t, d, selfRef)
         cleared == [heap EXCEPT ![NpRef(t, d)] = EmptyMap, ![NewRef(t, d)] = EmptyMap]
     IN  IF impl = "batch" /\ f.bi < Len(list)
         THEN LET content == OrchParams(TRUE, Merge(heap[selfRef], list[f.bi + 1]), heap[selfRef])
              IN  /\ tasks' = [tasks EXCEPT ![t].stack =
                       Append([below EXCEPT ![d - 1] = [f EXCEPT !.bi = @ + 1, !.ended = @ + 1,
                                                            !.adv = @ \/ g.adv]],
                              NewOrch(ref, content, la, f.bi + 1, start_node[o]))]
                  /\ heap' = [cleared EXCEPT ![ref] = content]
                  /\ objParams' = ParamsAfterBegin(ref, start_node[o])
         ELSE /\ tasks' = [tasks EXCEPT ![t].stack =
                   [below EXCEPT ![d - 1] =
                      [f EXCEPT !.pc = NextPhase("exec"),
                                !.orchRes = IF impl = "flow" THEN OrchResult(g) ELSE NoneAct,
                                !.innerPosted = g.posted,
                                !.adv = @ \/ g.adv,
                                !.ended = @ + 1]]]
              /\ heap' = cleared
              /\ UNCHANGED objParams
  /\ UNCHANGED <<config, objRetry, shared, gathered>>

\* AsyncParallelBatchFlow._run_async up to the await of asyncio.gather: one
\* _orch_async coroutine per parameter map, each with its own combined dict.  An
\* empty list goes straight to post_async.
ParallelPrep(t) ==
  /\ Running(t)
  /\ Top(t).root
  /\ Top(t).pc = "prep"
  /\ KindOf(Top(t).cur) \in FlowKinds
  /\ FlowImpl(KindOf(Top(t).cur), VisitAsync(Top(t))) = "parallel"
  /\ LET f == Top(t)
         o == f.cur
         list == PrepList(o, kind[o], TRUE)
         n == Len(list)
         selfRef == VisitParams(f)
         content == [i \in 1..n |-> OrchParams(TRUE, Merge(heap[selfRef], list[i]), heap[selfRef])]
         f1 == [f EXCEPT !.ph = <<"prep", "exec">>, !.pr = [none |-> FALSE, seq |-> list]]
     IN  IF n = 0
         THEN /\ tasks' = WithTop(t, [f1 EXCEPT !.pc = NextPhase("exec")])
              /\ UNCHANGED <<heap, objParams>>
         ELSE /\ tasks' = [i \in Tasks |->
                   IF i = t THEN [tasks[t] EXCEPT !.stack = <<[f1 EXCEPT !.pc = "gather", !.bi = n]>>]
                   ELSE IF i \in 1..n
                        THEN [IdleTask EXCEPT !.st = "running",
                                !.stack = <<NewOrch(OrchParamsRef(i, 1, selfRef), content[i],
                                                    TRUE, i, start_node[o])>>]
                        ELSE tasks[i]]
              /\ heap' = [r \in Refs |->
                   IF \E i \in 1..n : r = OrchParamsRef(i, 1, selfRef)
                   THEN content[CHOOSE i \in 1..n : r = OrchParamsRef(i, 1, selfRef)]
                   ELSE heap[r]]
              /\ objParams' = ParamsAfterBegin(OrchParamsRef(n, 1, selfRef), start_node[o])
  /\ UNCHANGED <<config, objRetry, shared, gathered>>

\* asyncio.gather returning while a traversal is still running.
ReturnedEarly(i) == tasks[i].st = "running"

\* A traversal asyncio.gather runs has returned from _orch_async.
Returned(i) == tasks[i].st = "running" /\ Depth(i) = 1 /\ Top(i).pc = "return"

\* asyncio.gather returns once every traversal has returned; the flow goes on to
\* post_async.
GatherReturn(t) ==
  /\ Running(t)
  /\ Top(t).pc = "gather"
  /\ ~gathered
  /\ \A i \in 1..Top(t).bi : Returned(i)
  /\ tasks' = [i \in Tasks |->
       IF i = t THEN [tasks[t] EXCEPT !.stack = <<[Top(t) EXCEPT
                         !.pc = NextPhase("exec"), !.ended = Top(t).bi,
                         !.adv = \E c \in 1..Top(t).bi : Top(c).adv]>>]
       ELSE IF i \in 1..Top(t).bi THEN [tasks[i] EXCEPT !.st = "done", !.res = OrchResult(Top(i))]
       ELSE tasks[i]]
  /\ heap' = [r \in Refs |->
       IF \E i \in 1..Top(t).bi : r \in {NpRef(i, 1), NewRef(i, 1)} THEN EmptyMap ELSE heap[r]]
  /\ gathered' = TRUE
  /\ UNCHANGED <<config, objParams, objRetry, shared>>

\* asyncio.gather raises the first exception a traversal raises, as soon as it
\* is raised; the other traversals are left running.
GatherRaise(t) ==
  /\ Running(t)
  /\ Top(t).pc = "gather"
  /\ ~gathered
  /\ \E i \in 1..Top(t).bi :
       /\ tasks[i].st = "failed"
       /\ tasks' = Raise(t, Top(t), tasks[i].err)
  /\ gathered' = TRUE
  /\ UNCHANGED <<config, objParams, objRetry, heap, shared>>

\* The flow's post returns: to the caller of run()/run_async() in the caller's frame
FlowPostRoot(t) ==
  /\ Running(t)
  /\ Top(t).root
  /\ KindOf(Top(t).cur) \in FlowKinds
  /\ Top(t).pc = "post"
  /\ LET f == Top(t)
         a == FlowPostResult(f.orchRes)
     IN  tasks' = [WithTop(t, [f EXCEPT !.pc = "done", !.ph = Append(@, "post"),
                                        !.last = a, !.posted = a])
                     EXCEPT ![t].st = "done", ![t].res = a]
  /\ UNCHANGED <<config, objParams, objRetry, heap, shared, gathered>>

\* The post of a nested flow returns to the enclosing activation, which takes
\* the successor for the action.
FlowPost(t) ==
  /\ Running(t)
  /\ ~Top(t).root
  /\ Top(t).cur # NoNode
  /\ KindOf(Top(t).cur) \in FlowKinds
  /\ Top(t).pc = "post"
  /\ LET f == Top(t)
         a == FlowPostResult(f.orchRes)
         n == GetNextNode(f.cur, a)
     IN  /\ n # NoNode => f.visits < MaxVisits
         /\ tasks' = WithTop(t, Advance(f, a))
         /\ objParams' = ParamsAfterBegin(f.np, n)
  /\ UNCHANGED <<config, objRetry, heap, shared, gathered>>

\* The post of a node visited by a flow returns an action; the activation takes
\* the successor for it.
NodePost(t, acts) ==
  /\ Running(t)
  /\ ~Top(t).root
  /\ Top(t).cur # NoNode
  /\ KindOf(Top(t).cur) \in NodeKinds
  /\ Top(t).pc = "post"
  /\ \E a \in acts :
       LET f == Top(t)
           n == GetNextNode(f.cur, a)
       IN  /\ n # NoNode => f.visits < MaxVisits
           /\ tasks' = WithTop(t, Advance([f EXCEPT !.got = f.er], a))
           /\ objParams' = ParamsAfterBegin(f.np, n)
  /\ heap' = [heap EXCEPT ![NewRef(t, Depth(t))] = EmptyMap]
  /\ shared' = shared \cup {Top(t).batch}
  /\ UNCHANGED <<config, objRetry, gathered>>

\* User code in execute changes the params it received in place:
\* self.params[key] = value
ExecMutatesParams(t) ==
  /\ Running(t)
  /\ ~Top(t).root
  /\ Top(t).pc = "exec"
  /\ KindOf(Top(t).cur) \in NodeKinds
  /\ \E j \in 1..Len(Top(t).co) : Top(t).co[j].st = "try"
  /\ heap[VisitParams(Top(t))]["k"] # Dirty
  /\ heap' = [heap EXCEPT ![VisitParams(Top(t))]["k"] = Dirty]
  /\ UNCHANGED <<config, objParams, objRetry, tasks, shared, gathered>>

\* User code in execute assigns a new dict to its params field:
\* self.params = {key: value}
ExecAssignsParams(t) ==
  /\ Running(t)
  /\ ~Top(t).root
  /\ Top(t).pc = "exec"
  /\ KindOf(Top(t).cur) \in NodeKinds
  /\ \E j \in 1..Len(Top(t).co) : Top(t).co[j].st = "try"
  /\ VisitParams(Top(t)) # NewRef(t, Depth(t))
  /\ heap' = [heap EXCEPT ![NewRef(t, Depth(t))] = [EmptyMap EXCEPT !["k"] = Dirty]]
  /\ IF Top(t).onCopy
     THEN /\ tasks' = WithTop(t, [Top(t) EXCEPT !.cparams = NewRef(t, Depth(t))])
          /\ UNCHANGED objParams
     ELSE /\ objParams' = [objParams EXCEPT ![Top(t).cur] = NewRef(t, Depth(t))]
          /\ UNCHANGED tasks
  /\ UNCHANGED <<config, objRetry, shared, gathered>>

\* flow.run(shared) / await flow.run_async(shared): _run / _run_async runs on the
\* flow object itself.
RunFlow(o) ==
  /\ \A t \in Tasks : tasks[t].st = "idle"
  /\ KindOf(o) \in FlowKinds
  /\ tasks' = [tasks EXCEPT ![0] =
       [st |-> "running", res |-> NoneAct, err |-> NoneVal,
        stack |-> <<[BlankFrame EXCEPT !.root = TRUE, !.cur = o, !.pc = "prep",
                                       !.async = IsAsyncNode(kind[o])]>>]]
  /\ UNCHANGED <<config, objParams, objRetry, heap, shared, gathered>>

\* ---------------------------------------------------- the retry engine alone
\* One node of any retrying class, constructed with any max_retries and wait the
\* bounds allow, is run on its own.
StaticInit ==
  /\ successors = [o \in Objects |-> [l \in {} |-> NoNode]]
  /\ objParams = [o \in Objects |-> InitRef(o)]
  /\ objRetry = [o \in Objects |-> 0]
  /\ heap = [r \in Refs |-> EmptyMap]
  /\ params0 = [o \in Objects |-> EmptyMap]
  /\ batches = [o \in FlowObjs |-> <<>>]
  /\ tasks = [t \in Tasks |-> IdleTask]
  /\ shared = {}
  /\ gathered = FALSE

InitRetry ==
  /\ \E kd \in NodeKinds :
       kind = [o \in Objects |-> IF o \in PlainNodes THEN kd ELSE "Flow"]
  /\ \E N \in 0..MaxRetries : max_retries = [o \in Objects |-> N]
  /\ \E w \in {0, 1} : wait = [o \in Objects |-> w]
  /\ start_node = [o \in FlowObjs |-> NoNode]
  /\ StaticInit

NextRetry ==
  \/ RunNode("A")
  \/ NodePrep(0)
  \/ \E j \in 1..MaxItems : ExecOk(0, j)
  \/ \E j \in 1..MaxItems : ExecFail(0, j)
  \/ \E j \in 1..MaxItems : Sleep(0, j)
  \/ \E j \in 1..MaxItems : FallbackReturn(0, j)
  \/ \E j \in 1..MaxItems : FallbackRaise(0, j)
  \/ NodePostRoot(0)

SpecRetry == InitRetry /\ [][NextRetry]_vars

\* ------------------------------------------------------------ flows
\* Flow F (entry A) holds the node A and the nested flow G (entry C).  The user
\* wires them with next(), then runs F.  In an async flow the inner objects are
\* either all async or all sync (sync nodes and flows run inside _orch_async).
KMap(v) == [EmptyMap EXCEPT !["k"] = v]

KindChoices ==
  {[o \in Objects |-> IF o \in FlowObjs THEN "Flow" ELSE "Node"],
   [o \in Objects |-> IF o \in FlowObjs THEN "AsyncFlow" ELSE "AsyncNode"],
   [o \in Objects |-> IF o = "F" THEN "AsyncFlow" ELSE IF o = "G" THEN "Flow" ELSE "Node"]}

Init ==
  /\ kind \in KindChoices
  /\ max_retries = [o \in Objects |-> IF o \in PlainNodes THEN MaxRetries ELSE 1]
  /\ wait = [o \in Objects |-> 0]
  /\ start_node = [o \in FlowObjs |-> IF o = "F" THEN "A" ELSE "C"]
  /\ StaticInit

Next ==
  \/ \E from \in Objects, to \in Objects, l \in Labels : Wire(from, to, l)
  \/ RunFlow("F")
  \/ FlowPrep(0)
  \/ OrchReturn(0)
  \/ FlowPost(0)
  \/ FlowPostRoot(0)
  \/ NodePrep(0)
  \/ ExecOk(0, 1)
  \/ ExecFail(0, 1)
  \/ FallbackReturn(0, 1)
  \/ FallbackRaise(0, 1)
  \/ NodePrepRaise(0)
  \/ NodePostRaise(0)
  \/ NodePost(0, PostActions)

Spec == Init /\ [][Next]_vars

\* ------------------------------------------------ the sync run of async classes
\* obj.run(shared): BaseNode.run calls self._run whatever the class is.
RunSync(o) ==
  /\ \A t \in Tasks : tasks[t].st = "idle"
  /\ tasks' = [tasks EXCEPT ![0] =
       [st |-> "running", res |-> NoneAct, err |-> NoneVal,
        stack |-> <<[BlankFrame EXCEPT !.root = TRUE, !.cur = o, !.pc = "prep"]>>]]
  /\ UNCHANGED <<config, objParams, objRetry, heap, shared, gathered>>

\* AsyncNode._run, which the async node classes resolve _run to:
\* raise RuntimeError("Use run_async for AsyncNode.")
AsyncNodeRunRaises(t) ==
  /\ Running(t)
  /\ Top(t).cur # NoNode
  /\ KindOf(Top(t).cur) \in AsyncNodeKinds
  /\ ~Top(t).async
  /\ Top(t).pc = "prep"
  /\ tasks' = Raise(t, Top(t), UseRunAsyncErr)
  /\ UNCHANGED <<config, objParams, objRetry, heap, shared, gathered>>

\* An async flow F (entry A, A -default-> G, G's entry C) or the node A, of any
\* class, is run with run().
InitSync ==
  /\ \E fk \in AsyncFlowKinds, ak \in {"Node"} \cup AsyncNodeKinds :
       kind = [o \in Objects |-> IF o = "F" THEN fk ELSE IF o = "G" THEN "AsyncFlow"
                                  ELSE IF o = "A" THEN ak ELSE "Node"]
  /\ max_retries = [o \in Objects |-> IF o = "A" THEN MaxRetries ELSE 1]
  /\ wait = [o \in Objects |-> 0]
  /\ start_node = [o \in FlowObjs |-> IF o = "F" THEN "A" ELSE "C"]
  /\ successors = NextOp([o \in Objects |-> [l \in {} |-> NoNode]], "A", "G", DefaultLabel)
  /\ objParams = [o \in Objects |-> InitRef(o)]
  /\ objRetry = [o \in Objects |-> 0]
  /\ heap = [r \in Refs |-> EmptyMap]
  /\ params0 = [o \in Objects |-> EmptyMap]
  /\ \E list \in SeqsUpTo({EmptyMap}, 1) : batches = [o \in FlowObjs |-> list]
  /\ tasks = [t \in Tasks |-> IdleTask]
  /\ shared = {}
  /\ gathered = FALSE

NextSync ==
  \/ RunSync("F")
  \/ RunSync("A")
  \/ AsyncNodeRunRaises(0)
  \/ FlowPrep(0)
  \/ OrchReturn(0)
  \/ FlowPost(0)
  \/ FlowPostRoot(0)
  \/ NodePrep(0)
  \/ NodePrepRaise(0)
  \/ ExecOk(0, 1)
  \/ ExecFail(0, 1)
  \/ FallbackReturn(0, 1)
  \/ FallbackRaise(0, 1)
  \/ NodePostRaise(0)
  \/ NodePost(0, PostActions)
  \/ NodePostRoot(0)

SpecSync == InitSync /\ [][NextSync]_vars

\* ------------------------------------------------ parameters and batch flows
\* The graph A -default-> G -default-> A with G's entry C, run as each kind of
\* flow with the flow's params and the list its prep returns drawn from small
\* sets.  A node's execute may change its params in place or assign the field.
FlowParamChoices == {EmptyMap, [key \in Keys |-> "v0"]}
BatchParamChoices == {EmptyMap, KMap("v1")}
ParamPostActions == {NoneAct, "a"}

ParamKindChoices ==
  {[o \in Objects |-> IF o = "F" THEN fk ELSE IF o = "G" THEN "Flow" ELSE "Node"] :
      fk \in {"Flow", "BatchFlow"}}
  \cup
  {[o \in Objects |-> IF o = "F" THEN fk ELSE IF o = "G" THEN "AsyncFlow" ELSE "AsyncNode"] :
      fk \in {"AsyncFlow", "AsyncBatchFlow", "AsyncParallelBatchFlow"}}

InitParams ==
  /\ kind \in ParamKindChoices
  /\ max_retries = [o \in Objects |-> IF o = "A" THEN MaxRetries ELSE 1]
  /\ wait = [o \in Objects |-> 0]
  /\ start_node = [o \in FlowObjs |-> IF o = "F" THEN "A" ELSE "C"]
  /\ successors = NextOp(NextOp([o \in Objects |-> [l \in {} |-> NoNode]],
                                "A", "G", DefaultLabel), "G", "A", DefaultLabel)
  /\ \E fp \in FlowParamChoices :
       /\ params0 = [o \in Objects |-> IF o = "F" THEN fp ELSE EmptyMap]
       /\ heap = [r \in Refs |-> IF r = InitRef("F") THEN fp ELSE EmptyMap]
  /\ \E list \in SeqsUpTo(BatchParamChoices, MaxBatch) :
       batches = [o \in FlowObjs |->
                    IF o = "F" /\ kind["F"] \in BatchFlowKinds THEN list ELSE <<>>]
  /\ objParams = [o \in Objects |-> InitRef(o)]
  /\ objRetry = [o \in Objects |-> 0]
  /\ tasks = [t \in Tasks |-> IdleTask]
  /\ shared = {}
  /\ gathered = FALSE

NextParams ==
  \/ RunFlow("F")
  \/ \E t \in Tasks : FlowPrep(t)
  \/ ParallelPrep(0)
  \/ GatherReturn(0)
  \/ GatherRaise(0)
  \/ \E t \in Tasks : OrchReturn(t)
  \/ \E t \in Tasks : FlowPost(t)
  \/ FlowPostRoot(0)
  \/ \E t \in Tasks : NodePrep(t)
  \/ \E t \in Tasks : ExecOk(t, 1)
  \/ \E t \in Tasks : ExecFail(t, 1)
  \/ \E t \in Tasks : FallbackReturn(t, 1)
  \/ \E t \in Tasks : FallbackRaise(t, 1)
  \/ \E t \in Tasks : ExecMutatesParams(t)
  \/ \E t \in Tasks : ExecAssignsParams(t)
  \/ \E t \in Tasks : NodePost(t, ParamPostActions)

SpecParams == InitParams /\ [][NextParams]_vars

\* ------------------------------------------------ the two retry engines
\* The sync node A is run with run() and the async node C with run_async(), both
\* constructed with the same max_retries and wait.
RunPair(a, c) ==
  /\ \A t \in Tasks : tasks[t].st = "idle"
  /\ tasks' = [tasks EXCEPT
       ![0] = [st |-> "running", res |-> NoneAct, err |-> NoneVal,
               stack |-> <<[BlankFrame EXCEPT !.root = TRUE, !.cur = a, !.pc = "prep"]>>],
       ![1] = [st |-> "running", res |-> NoneAct, err |-> NoneVal,
               stack |-> <<[BlankFrame EXCEPT !.root = TRUE, !.cur = c, !.pc = "prep",
                                              !.async = TRUE]>>]]
  /\ UNCHANGED <<config, objParams, objRetry, heap, shared, gathered>>

InitEquiv ==
  /\ kind = [o \in Objects |-> IF o = "A" THEN "Node" ELSE IF o = "C" THEN "AsyncNode"
                                 ELSE "Flow"]
  /\ \E N \in 0..MaxRetries : max_retries = [o \in Objects |-> N]
  /\ \E w \in {0, 1} : wait = [o \in Objects |-> w]
  /\ start_node = [o \in FlowObjs |-> NoNode]
  /\ StaticInit

NextEquiv ==
  \/ RunPair("A", "C")
  \/ \E t \in {0, 1} : NodePrep(t)
  \/ \E t \in {0, 1} : ExecOk(t, 1)
  \/ \E t \in {0, 1} : ExecFail(t, 1)
  \/ \E t \in {0, 1} : Sleep(t, 1)
  \/ \E t \in {0, 1} : FallbackReturn(t, 1)
  \/ \E t \in {0, 1} : FallbackRaise(t, 1)
  \/ \E t \in {0, 1} : NodePostRoot(t)

SpecEquiv == InitEquiv /\ [][NextEquiv]_vars

\* ------------------------------------------------ cooperative traversals
\* The async flow F (entry A, A -default-> G -default-> A, G's entry C) is run
\* with run_async.  A and C are sync or async nodes, G a sync or an async flow; a
\* sync flow holds sync nodes.
CoopKindChoices ==
  LET all == {[o \in Objects |-> IF o = "F" THEN "AsyncFlow" ELSE IF o = "G" THEN gk
                                  ELSE IF o = "A" THEN ak ELSE ck] :
                 ak \in {"Node", "AsyncNode"}, gk \in {"Flow", "AsyncFlow"},
                 ck \in {"Node", "AsyncNode"}}
  IN  {kc \in all : ~(kc["G"] = "Flow" /\ kc["C"] = "AsyncNode")}

InitCoop ==
  /\ kind \in CoopKindChoices
  /\ max_retries = [o \in Objects |-> IF o = "A" THEN MaxRetries ELSE 1]
  /\ \E w \in {0, 1} : wait = [o \in Objects |-> w]
  /\ start_node = [o \in FlowObjs |-> IF o = "F" THEN "A" ELSE "C"]
  /\ successors = NextOp(NextOp([o \in Objects |-> [l \in {} |-> NoNode]],
                                "A", "G", DefaultLabel), "G", "A", DefaultLabel)
  /\ objParams = [o \in Objects |-> InitRef(o)]
  /\ objRetry = [o \in Objects |-> 0]
  /\ heap = [r \in Refs |-> EmptyMap]
  /\ params0 = [o \in Objects |-> EmptyMap]
  /\ batches = [o \in FlowObjs |-> <<>>]
  /\ tasks = [t \in Tasks |-> IdleTask]
  /\ shared = {}
  /\ gathered = FALSE

NextCoop ==
  \/ RunFlow("F")
  \/ FlowPrep(0)
  \/ OrchReturn(0)
  \/ FlowPost(0)
  \/ FlowPostRoot(0)
  \/ NodePrep(0)
  \/ NodePrepRaise(0)
  \/ ExecOk(0, 1)
  \/ ExecFail(0, 1)
  \/ Sleep(0, 1)
  \/ FallbackReturn(0, 1)
  \/ FallbackRaise(0, 1)
  \/ NodePostRaise(0)
  \/ NodePost(0, ParamPostActions)
  \/ Cancel(0)

SpecCoop == InitCoop /\ [][NextCoop]_vars

\* ------------------------------------------- flows that talk through queues
\* The multi-agent scripts of the cookbook: two AsyncFlows are run by one
\* asyncio.gather over the same shared state, which holds two asyncio.Queue
\* objects.  Task 0 runs flow F (entry A), task 1 runs flow G (entry C).
\* asyncio.Queue() is unbounded: put never waits, get waits while the queue is
\* empty.  The language model behind call_llm is any function: its replies are
\* nondeterministic.
MaxRounds == 3               \* rounds of the guessing game the model follows
RoundLimit == 3              \* shared["round_count"] >= 3
Continue == "continue"
End == "end"
OpeningMsg == ""             \* the empty guess main() gives the hinter
GameOver == "GAME_OVER"
ChatEnd == "CHAT_END"
Reply == "reply"             \* any text call_llm returns that has no special role
RightGuess == "right"        \* a guess equal to shared["target_word"]
AgentTasks == {0, 1}

Put(sh, q, msg) == [sh EXCEPT ![q] = Append(@, msg), !.sent[q] = @ + 1]
Get(sh, q) == [sh EXCEPT ![q] = Tail(@), !.taken[q] = @ + 1]

\* The node object's class, by its role in the script.
QueueOf(script, n) ==
  IF script = "idiom" THEN (IF n = "A" THEN "hinter_queue" ELSE "guesser_queue")
  ELSE (IF n = "A" THEN "agent1_queue" ELSE "agent2_queue")

\* prep_async that takes the end signal for an ordinary message.
EndSignalsIgnored(script, n) == {}

\* The messages on which prep_async returns None.  AsyncGuesser.prep_async has
\* no such test.
EndSignals(script, n) ==
  IF script = "idiom" THEN (IF n = "A" THEN {GameOver} ELSE {})
  ELSE {ChatEnd}

\* A task stands in the prep_async of a visit of node n.
AtPrep(t) ==
  /\ Running(t)
  /\ ~Top(t).root
  /\ Top(t).cur \in PlainNodes
  /\ Top(t).pc = "prep"

\* A task waits in `await shared[queue].get()` on an empty queue.
Blocked(t) == AtPrep(t) /\ Len(shared[QueueOf(shared.script, Top(t).cur)]) = 0

\* prep_async: message = await shared[queue].get(); None on the end signal,
\* the inputs of exec_async otherwise.
AgentPrep(t) ==
  /\ AtPrep(t)
  /\ Top(t).via = "_run_async"
  /\ LET f == Top(t)
         q == QueueOf(shared.script, f.cur)
     IN  /\ Len(shared[q]) > 0
         /\ LET msg == Head(shared[q])
                pr == IF msg \in EndSignals(shared.script, f.cur) THEN NoPrep
                      ELSE [none |-> FALSE, seq |-> <<PrepValue>>]
            IN  tasks' = WithTop(t, [f EXCEPT !.pc = NextPhase("prep"), !.pr = pr,
                                              !.ph = <<"prep", "exec">>])
         /\ shared' = Get(shared, q)
  /\ UNCHANGED <<config, objParams, objRetry, heap, gathered>>

\* What call_llm may return to the node in the state sh.  The guesser's reply may
\* equal the target word; the model follows at most MaxRounds rounds, so the
\* last of them is a right guess.
LlmReplies(sh, n) ==
  IF sh.script = "idiom" /\ n = "C"
  THEN {RightGuess} \cup (IF sh.past_guesses < MaxRounds - 1 THEN {Reply} ELSE {})
  ELSE {Reply}

\* AsyncNode._exec with the default max_retries = 1: one call of exec_async,
\* which returns None for the inputs None and call_llm's reply otherwise.
AgentExec(t) ==
  /\ Running(t)
  /\ ~Top(t).root
  /\ Top(t).cur \in PlainNodes
  /\ Top(t).pc = "exec"
  /\ \E r \in LlmReplies(shared, Top(t).cur) :
       LET f == Top(t)
           v == IF f.pr.none THEN NoneVal ELSE OkVal(r, 0)
       IN  tasks' = WithTop(t, [f EXCEPT !.pc = NextPhase("exec"),
                                         !.er = [batch |-> FALSE, val |-> v, seq |-> <<>>],
                                         !.nExec = IF f.pr.none THEN @ ELSE @ + 1])
  /\ UNCHANGED <<config, objParams, objRetry, heap, shared, gathered>>

\* The action post_async returns and the shared state it leaves.
\* AsyncHinter.post_async
HinterPost(sh, pr, er) ==
  IF er.val = NoneVal THEN [a |-> End, sh |-> sh]
  ELSE [a |-> Continue,
        sh |-> Put([sh EXCEPT !.past_hints = @ + 1], "guesser_queue", er.val[2])]

\* AsyncGuesser.post_async
GuesserPost(sh, pr, er) ==
  IF er.val[2] = RightGuess
  THEN [a |-> End, sh |-> [Put(sh, "hinter_queue", GameOver) EXCEPT !.end_sent = TRUE]]
  ELSE [a |-> Continue,
        sh |-> Put([sh EXCEPT !.past_guesses = @ + 1], "hinter_queue", er.val[2])]

\* ChatAgent1.post_async
Agent1Post(sh, pr, er) ==
  IF er.val = NoneVal THEN [a |-> End, sh |-> sh]
  ELSE LET s1 == [sh EXCEPT !.conversation_history = @ + 1, !.round_count = @ + 1]
       IN  IF s1.round_count >= RoundLimit
           THEN [a |-> End, sh |-> [Put(s1, "agent2_queue", ChatEnd) EXCEPT !.end_sent = TRUE]]
           ELSE [a |-> Continue, sh |-> Put(s1, "agent2_queue", er.val[2])]

\* ChatAgent2.post_async
Agent2Post(sh, pr, er) ==
  IF pr.none THEN [a |-> End, sh |-> Put(sh, "agent1_queue", ChatEnd)]
  ELSE IF er.val = NoneVal THEN [a |-> End, sh |-> sh]
  ELSE [a |-> Continue,
        sh |-> Put([sh EXCEPT !.conversation_history = @ + 1], "agent1_queue", er.val[2])]

\* ChatAgent1.post_async of two_chat_test.py: the end signal goes to both queues.
Agent1PostTest(sh, pr, er) ==
  IF er.val = NoneVal THEN [a |-> End, sh |-> sh]
  ELSE LET s1 == [sh EXCEPT !.conversation_history = @ + 1, !.round_count = @ + 1]
       IN  IF s1.round_count >= RoundLimit
           THEN [a |-> End,
                 sh |-> [Put(Put(s1, "agent2_queue", ChatEnd), "agent1_queue", ChatEnd)
                           EXCEPT !.end_sent = TRUE]]
           ELSE [a |-> Continue, sh |-> Put(s1, "agent2_queue", er.val[2])]

\* ChatAgent2.post_async of two_chat_test.py
Agent2PostTest(sh, pr, er) ==
  IF er.val = NoneVal THEN [a |-> End, sh |-> sh]
  ELSE [a |-> Continue,
        sh |-> Put([sh EXCEPT !.conversation_history = @ + 1], "agent1_queue", er.val[2])]

PostOf(sh, n, pr, er) ==
  CASE sh.script = "idiom" ->
         (IF n = "A" THEN HinterPost(sh, pr, er) ELSE GuesserPost(sh, pr, er))
    [] sh.script = "chat" ->
         (IF n = "A" THEN Agent1Post(sh, pr, er) ELSE Agent2Post(sh, pr, er))
    [] OTHER ->
         (IF n = "A" THEN Agent1PostTest(sh, pr, er) ELSE Agent2PostTest(sh, pr, er))

\* post_async of the visited node returns; _orch_async takes the successor for
\* the action.
AgentPost(t) ==
  /\ Running(t)
  /\ ~Top(t).root
  /\ Top(t).cur \in PlainNodes
  /\ Top(t).pc = "post"
  /\ LET f == Top(t)
         p == PostOf(shared, f.cur, f.pr, f.er)
         n == GetNextNode(f.cur, p.a)
     IN  /\ tasks' = WithTop(t, Advance([f EXCEPT !.got = f.er], p.a))
         /\ objParams' = ParamsAfterBegin(f.np, n)
         /\ shared' = p.sh
  /\ UNCHANGED <<config, objRetry, heap, gathered>>

\* asyncio.gather(flow1.run_async(shared), flow2.run_async(shared)): one task
\* per flow, each in _run_async on its flow object.
RunBoth ==
  /\ \A t \in Tasks : tasks[t].st = "idle"
  /\ tasks' = [t \in Tasks |->
       IF t \in AgentTasks
       THEN [st |-> "running", res |-> NoneAct, err |-> NoneVal,
             stack |-> <<[BlankFrame EXCEPT !.root = TRUE, !.pc = "prep",
                                            !.cur = IF t = 0 THEN "F" ELSE "G",
                                            !.async = TRUE]>>]
       ELSE tasks[t]]
  /\ UNCHANGED <<config, objParams, objRetry, heap, shared, gathered>>

\* asyncio.gather returns to main() once both flows have returned.
BothReturn ==
  /\ ~gathered
  /\ \A t \in AgentTasks : tasks[t].st = "done"
  /\ gathered' = TRUE
  /\ UNCHANGED <<config, objParams, objRetry, heap, tasks, shared>>

\* The objects main() builds: two AsyncNode subclasses with the default
\* max_retries and wait, two AsyncFlows, the wiring, and the shared state.
InitAgents(script) ==
  /\ kind = [o \in Objects |-> IF o \in FlowObjs THEN "AsyncFlow" ELSE "AsyncNode"]
  /\ max_retries = [o \in Objects |-> 1]
  /\ wait = [o \in Objects |-> 0]
  /\ start_node = [o \in FlowObjs |-> IF o = "F" THEN "A" ELSE "C"]
  /\ successors =
       IF script = "idiom"
       THEN NextOp(NextOp([o \in Objects |-> [l \in {} |-> NoNode]],
                          "A", "A", Continue), "C", "C", Continue)
       ELSE NextOp(NextOp([o \in Objects |-> [l \in {} |-> NoNode]],
                          "A", "C", Continue), "C", "A", Continue)
  /\ objParams = [o \in Objects |-> InitRef(o)]
  /\ objRetry = [o \in Objects |-> 0]
  /\ heap = [r \in Refs |-> EmptyMap]
  /\ params0 = [o \in Objects |-> EmptyMap]
  /\ batches = [o \in FlowObjs |-> <<>>]
  /\ tasks = [t \in Tasks |-> IdleTask]
  /\ gathered = FALSE

\* idiom.py: the hinter (A) and the guesser (C) each loop on "continue"; main()
\* puts the empty guess on the hinter's queue.
InitIdiom ==
  /\ InitAgents("idiom")
  /\ shared = [script |-> "idiom",
               hinter_queue |-> <<OpeningMsg>>, guesser_queue |-> <<>>,
               past_hints |-> 0, past_guesses |-> 0,
               sent |-> [hinter_queue |-> 1, guesser_queue |-> 0],
               taken |-> [hinter_queue |-> 0, guesser_queue |-> 0],
               end_sent |-> FALSE]

NextIdiom ==
  \/ RunBoth
  \/ \E t \in AgentTasks : FlowPrep(t)
  \/ \E t \in AgentTasks : AgentPrep(t)
  \/ \E t \in AgentTasks : AgentExec(t)
  \/ \E t \in AgentTasks : AgentPost(t)
  \/ \E t \in AgentTasks : OrchReturn(t)
  \/ \E t \in AgentTasks : FlowPostRoot(t)
  \/ BothReturn

\* The event loop runs a task that is ready to run.
SpecIdiom == InitIdiom /\ [][NextIdiom]_vars /\ WF_vars(NextIdiom)

\* two_chat.py and its variant two_chat_test.py: agent1 (A) and agent2 (C) are
\* wired to each other on "continue"; one flow enters at agent1, the other at
\* agent2, and main() puts the opening message on agent2's queue.
ChatScripts == {"chat", "chat_test"}

InitChat ==
  /\ InitAgents("chat")
  /\ \E script \in ChatScripts :
     shared = [script |-> script,
               agent1_queue |-> <<>>, agent2_queue |-> <<Reply>>,
               conversation_history |-> 1, round_count |-> 0,
               sent |-> [agent1_queue |-> 0, agent2_queue |-> 1],
               taken |-> [agent1_queue |-> 0, agent2_queue |-> 0],
               end_sent |-> FALSE]

NextChat ==
  \/ RunBoth
  \/ \E t \in AgentTasks : FlowPrep(t)
  \/ \E t \in AgentTasks : AgentPrep(t)
  \/ \E t \in AgentTasks : AgentExec(t)
  \/ \E t \in AgentTasks : AgentPost(t)
  \/ \E t \in AgentTasks : OrchReturn(t)
  \/ \E t \in AgentTasks : FlowPostRoot(t)
  \/ BothReturn

\* The event loop runs a task that is ready to run.
SpecChat == InitChat /\ [][NextChat]_vars /\ WF_vars(NextChat)

\* ------------------------------------------------------- the wiring surface
\* What a caller may pass as the action of next() or as the right operand of
\* `-`: strings, the empty string among them, and NoneAct for a value that is
\* not a string.
WireArgs == {DefaultLabel, "a", "", NoneAct}
WireNodes == PlainNodes
MaxEdges == 2                \* edges the wiring calls may leave in the maps
IsStr(x) == x # NoneAct
TypeErr == <<"exc", "Action must be a string", 0>>

\* BaseNode.next(node, action): warn when the action is already a key, store
\* the node under it, return the node.
NextCall(succ, from, to, action) ==
  [succ |-> NextOp(succ, from, to, action), ret |-> to, err |-> NoneVal,
   warned |-> action \in DOMAIN succ[from]]

\* BaseNode.__rshift__: return self.next(other_node)
RShiftOp(succ, self, other_node) == NextCall(succ, self, other_node, DefaultLabel)

\* BaseNode.__sub__: a _ConditionalTransition for a string, TypeError otherwise.
SubOp(self, action_name) ==
  [ok |-> IsStr(action_name), src |-> self, action |-> action_name]

\* The transition that forgets its action and wires the default edge.
CondRShiftDefault(succ, ct, target_node) == NextCall(succ, ct.src, target_node, DefaultLabel)

\* _ConditionalTransition.__rshift__: return self.src.next(target_node, self.action)
CondRShiftOp(succ, ct, target_node) == NextCall(succ, ct.src, target_node, ct.action)

\* The number of edges stays within the bound: a call may add an edge below the
\* bound and may always overwrite one.
CanWire(from, label) ==
  /\ \A t \in Tasks : tasks[t].st = "idle"
  /\ Cardinality({ol \in Objects \X WireArgs : ol[2] \in DOMAIN successors[ol[1]]}) < MaxEdges
     \/ label \in DOMAIN successors[from]

\* The caller's view of a wiring call that has returned or raised: the value
\* it got, and the successor maps it saw before the call.
Called(r, op, from, to, label) ==
  /\ successors' = r.succ
  /\ tasks' = [tasks EXCEPT ![0] =
       [st |-> "idle", stack |-> <<>>, res |-> r.ret, err |-> r.err,
        warned |-> r.warned, before |-> successors,
        call |-> [op |-> op, from |-> from, to |-> to, label |-> label]]]
  /\ UNCHANGED <<kind, max_retries, wait, start_node, params0, batches,
                 objParams, objRetry, heap, shared, gathered>>

\* from.next(to)
CallNextDefault(from, to) ==
  /\ CanWire(from, DefaultLabel)
  /\ Called(NextCall(successors, from, to, DefaultLabel), "next", from, to, DefaultLabel)

\* from.next(to, label)
CallNext(from, to, label) ==
  /\ CanWire(from, label)
  /\ Called(NextCall(successors, from, to, label), "next_label", from, to, label)

\* from >> to
CallRShift(from, to) ==
  /\ CanWire(from, DefaultLabel)
  /\ Called(RShiftOp(successors, from, to), "rshift", from, to, DefaultLabel)

\* from - label >> to
CallSubRShift(from, label, to) ==
  /\ CanWire(from, label)
  /\ LET ct == SubOp(from, label)
     IN  Called(IF ct.ok THEN CondRShiftOp(successors, ct, to)
                ELSE [succ |-> successors, ret |-> NoNode, err |-> TypeErr, warned |-> FALSE],
                "sub_rshift", from, to, label)

InitWire ==
  /\ kind = [o \in Objects |-> IF o \in FlowObjs THEN "Flow" ELSE "Node"]
  /\ max_retries = [o \in Objects |-> 1]
  /\ wait = [o \in Objects |-> 0]
  /\ start_node = [o \in FlowObjs |-> NoNode]
  /\ StaticInit

NextWire ==
  \/ \E from \in WireNodes, to \in WireNodes : CallNextDefault(from, to)
  \/ \E from \in WireNodes, to \in WireNodes, l \in WireArgs : CallNext(from, to, l)
  \/ \E from \in WireNodes, to \in WireNodes : CallRShift(from, to)
  \/ \E from \in WireNodes, to \in WireNodes, l \in WireArgs : CallSubRShift(from, l, to)

SpecWire == InitWire /\ [][NextWire]_vars

\* ------------------------------------------------ claims on the retry engine
\* The frames of visits of retrying nodes, as <<task, depth>>.
NodeVisits ==
  {td \in Tasks \X (1..MaxDepth) :
     /\ td[2] <= Depth(td[1])
     /\ tasks[td[1]].stack[td[2]].cur # NoNode
     /\ KindOf(tasks[td[1]].stack[td[2]].cur) \in NodeKinds
     /\ tasks[td[1]].stack[td[2]].pc # "idle"}
FrameAt(td) == tasks[td[1]].stack[td[2]]
Attempts(f) == max_retries[f.cur]
IsPlainVisit(f) == KindOf(f.cur) \in {"Node", "AsyncNode"}
IsBatchVisit(f) == KindOf(f.cur) \in BatchNodeKinds

\* C2: a retrying node (Node or AsyncNode) configured with N >= 1 attempts invokes
\* execute at most N times during one visit, and invokes the fallback hook at most
\* once and only after all N attempts have failed.
C2_AttemptBound ==
  \A td \in NodeVisits :
    LET f == FrameAt(td)
        N == Attempts(f)
    IN  (IsPlainVisit(f) /\ N >= 1) =>
          /\ f.nExec <= N
          /\ \A j \in 1..Len(f.co) :
               /\ f.co[j].nFb <= 1
               /\ (f.co[j].nFb = 1 \/ f.co[j].st = "fb") =>
                     (f.co[j].nFail = N /\ f.co[j].nExec = N)

\* A visit in which both attempts of a two-attempt node failed and the fallback ran.
C2_Witness ==
  \E td \in NodeVisits :
    /\ IsPlainVisit(FrameAt(td))
    /\ Attempts(FrameAt(td)) = 2
    /\ FrameAt(td).nExec = 2
    /\ FrameAt(td).co[1].nFb = 1

\* C3: with N >= 1 attempts, if attempt k is the first to succeed, execute has been
\* invoked exactly k+1 times, the fallback never, and post receives that attempt's
\* return value; if all N attempts fail, the fallback is invoked exactly once with
\* the prep value and the N-th attempt's exception, and post receives the value the
\* fallback returned.
C3_RetryOutcome ==
  \A td \in NodeVisits :
    LET f == FrameAt(td)
        N == Attempts(f)
    IN  (IsPlainVisit(f) /\ N >= 1 /\ f.pc = "done") =>
          LET c == f.co[1]
              k == c.nFail
          IN  IF k < N
              THEN /\ f.nExec = k + 1
                   /\ c.nFb = 0
                   /\ f.got = [batch |-> FALSE, val |-> OkVal(PrepValue, k), seq |-> <<>>]
              ELSE /\ f.nExec = N
                   /\ c.nFb = 1
                   /\ c.fbArg = PrepValue
                   /\ c.fbExc = ExcVal(PrepValue, N - 1)
                   /\ f.got = [batch |-> FALSE,
                               val |-> FbVal(PrepValue, ExcVal(PrepValue, N - 1)),
                               seq |-> <<>>]

\* A finished visit whose second attempt succeeded, and one whose attempts all failed.
C3_Witness ==
  \E td \in NodeVisits :
    /\ IsPlainVisit(FrameAt(td))
    /\ Attempts(FrameAt(td)) = 2
    /\ FrameAt(td).pc = "done"
    /\ FrameAt(td).co[1].nFail = 2
    /\ FrameAt(td).got.val[1] = "fb"

\* C8: for every batch node variant the result post receives is a sequence as long
\* as the prepared input whose i-th element is the execute (or fallback) result for
\* the i-th item, in whatever order parallel items complete; an empty or absent
\* input gives an empty result and no execute invocation.
C8_BatchOrder ==
  \A td \in NodeVisits :
    LET f == FrameAt(td)
        N == Attempts(f)
        items == IF f.pr.none THEN <<>> ELSE f.pr.seq
    IN  (IsBatchVisit(f) /\ f.pc = "done") =>
          /\ f.got.batch
          /\ Len(f.got.seq) = Len(items)
          /\ N >= 1 =>
               \A i \in 1..Len(items) :
                 \/ \E k \in 0..(N - 1) : f.got.seq[i] = OkVal(items[i], k)
                 \/ f.got.seq[i] = FbVal(items[i], ExcVal(items[i], N - 1))
          /\ Len(items) = 0 => (f.got.seq = <<>> /\ f.nExec = 0)

\* A parallel batch visit over <<x, y>> that has finished and whose second item
\* completed before its first.
C8_Witness ==
  \E td \in NodeVisits :
    /\ KindOf(FrameAt(td).cur) = "AsyncParallelBatchNode"
    /\ FrameAt(td).pc = "done"
    /\ FrameAt(td).pr.seq = <<"x", "y">>
    /\ FrameAt(td).order = <<2, 1>>

\* C9: in a batch node with N attempts the retry engine applies per item: every
\* item starts at attempt index 0 and has N attempts of its own, however many
\* attempts the other items used, and the fallback is invoked once for each item
\* whose N attempts all failed and for no other item.
C9_PerItemBudget ==
  \A td \in NodeVisits :
    LET f == FrameAt(td)
        N == Attempts(f)
    IN  (IsBatchVisit(f) /\ N >= 1) =>
          \A j \in 1..Len(f.co) :
            LET c == f.co[j]
            IN  /\ c.st # "new" => c.firstK = 0
                /\ c.nExec <= N
                /\ c.nFail <= c.nExec
                /\ c.st = "try" => (c.k = c.nFail /\ c.nExec = c.nFail /\ c.nFail < N)
                /\ c.nFb = (IF c.st \in {"done", "raised"} /\ c.nFail = N THEN 1 ELSE 0)
                /\ c.st = "fb" => c.nFail = N

\* A batch visit in which the first item used up both attempts and fell back, and
\* the second item then succeeded on its first attempt.
C9_Witness ==
  \E td \in NodeVisits :
    /\ IsBatchVisit(FrameAt(td))
    /\ Attempts(FrameAt(td)) = 2
    /\ Len(FrameAt(td).co) = 2
    /\ FrameAt(td).co[1].nFail = 2
    /\ FrameAt(td).co[1].nFb = 1
    /\ FrameAt(td).co[2].nExec = 1
    /\ FrameAt(td).co[2].nFb = 0
    /\ FrameAt(td).co[2].st = "done"

\* ------------------------------------------------ claims on the flow interpreter
\* The frames of all tasks, as <<task, depth>>.
Frames == {td \in Tasks \X (1..MaxDepth) : td[2] <= Depth(td[1])}
OrchFrames == {td \in Frames : ~FrameAt(td).root}
AllPhases == <<"prep", "exec", "post">>
PhasePrefixes == {SubSeq(AllPhases, 1, n) : n \in 0..3}

\* C1: after a visited node's post returns action a, the node visited next is the
\* one its successor map holds under a, or under "default" when a is empty or
\* None; the traversal ends exactly when the map has no entry for that label, and
\* an ended traversal visits nothing.
C1_SuccessorLookup ==
  \A td \in OrchFrames :
    LET f == FrameAt(td)
        lbl == IF f.posted \in {NoneAct, ""} THEN "default" ELSE f.posted
    IN  /\ f.prev # NoNode =>
             IF lbl \in DOMAIN successors[f.prev]
             THEN f.cur = successors[f.prev][lbl] /\ f.pc # "return"
             ELSE f.cur = NoNode /\ f.pc = "return"
        /\ f.pc = "return" => (f.cur = NoNode /\ f.ph = <<>> /\ f.co = <<>>)

\* A traversal whose previous post returned the empty action and which went on to
\* the "default" successor, where another label is mapped to a different node.
C1_Witness ==
  \E td \in OrchFrames :
    LET f == FrameAt(td)
    IN  /\ f.prev # NoNode
        /\ f.posted = ""
        /\ DOMAIN successors[f.prev] = {"default", "a"}
        /\ successors[f.prev]["a"] # successors[f.prev]["default"]
        /\ f.cur = successors[f.prev]["default"]
        /\ f.pc = "exec"

C7_FlowReturnsLastAction ==
  /\ (tasks[0].st = "done" /\ KindOf(tasks[0].stack[1].cur) \in {"Flow", "AsyncFlow"}) =>
        tasks[0].res = tasks[0].stack[1].innerPosted
  /\ \A td \in OrchFrames :
       LET f == FrameAt(td)
           lbl == IF f.innerPosted \in {NoneAct, ""} THEN "default" ELSE f.innerPosted
       IN  (f.prev \in FlowObjs /\ KindOf(f.prev) \in {"Flow", "AsyncFlow"}
              /\ f.pc \in {"prep", "return"}) =>
             /\ f.last = f.innerPosted
             /\ f.cur = IF lbl \in DOMAIN successors[f.prev]
                        THEN successors[f.prev][lbl] ELSE NoNode

\* The nested flow G ended on a node whose post returned "a", and the enclosing
\* traversal went on to the node G's successor map holds under "a".
C7_Witness ==
  \E td \in OrchFrames :
    LET f == FrameAt(td)
    IN  /\ f.prev = "G"
        /\ f.innerPosted = "a"
        /\ f.last = "a"
        /\ "a" \in DOMAIN successors["G"]
        /\ f.cur = successors["G"]["a"]
        /\ f.cur = "A"
        /\ f.pc = "prep"

\* ------------------------------------------------ claims on parameters
\* F is run as a sequential batch flow (BatchFlow._run / AsyncBatchFlow._run_async).
BatchRun == kind["F"] \in {"BatchFlow", "AsyncBatchFlow"}

\* C5: a change a node makes to its params during its own execute, by assigning
\* the field or by changing the received dict in place, is seen by no later visit
\* of the traversal and by no visit of another traversal: every visit begins with
\* the parameters selected for its traversal.
C5_VisitIsolation ==
  \A td \in OrchFrames :
    LET f == FrameAt(td)
    IN  (f.cur # NoNode /\ f.pc = "prep") => heap[VisitParams(f)] = f.sel

\* C6: the params field, the dict it names and the retry counter of every wired
\* object are what they were before the run, during and after any flow run.
C6_OriginalsUnchanged ==
  \A o \in Objects :
    /\ objParams[o] = InitRef(o)
    /\ heap[InitRef(o)] = params0[o]
    /\ objRetry[o] = 0

\* A batch run of two traversals has returned; its visits ran on params the
\* interpreter set, and the retry counter of a visited copy was advanced.
C6_Witness ==
  /\ tasks[0].st = "done"
  /\ kind["F"] = "BatchFlow"
  /\ Len(batches["F"]) = 2
  /\ tasks[0].stack[1].ended = 2
  /\ tasks[0].stack[1].adv
  /\ params0["F"] # EmptyMap

\* C10: a batch flow whose prep returns [B1..Bn] makes exactly n traversals from
\* the entry node in list order; every visit of traversal i begins with params
\* equal to the flow's params overridden by Bi; traversal i+1 starts after
\* traversal i has ended and sees the shared-state writes of traversals 1..i.
C10_BatchTraversals ==
  BatchRun =>
    LET list == batches["F"]
        st == tasks[0].stack
    IN  /\ tasks[0].st = "done" => st[1].ended = Len(list)
        /\ Depth(0) >= 1 => st[1].bi <= Len(list)
        /\ Depth(0) >= 2 =>
             /\ st[2].batch = st[1].bi
             /\ st[1].ended = st[2].batch - 1
             /\ st[2].saw = 1..(st[2].batch - 1)
             /\ (st[2].visits = 1 /\ st[2].pc # "return") => st[2].cur = start_node["F"]
        /\ \A d \in 2..Depth(0) :
             (st[d].cur # NoNode /\ st[d].pc = "prep") =>
                heap[VisitParams(st[d])] = Merge(params0["F"], list[st[1].bi])

\* ------------------------------------------------ claims on parallel batch flows
\* F is run as a parallel batch flow (AsyncParallelBatchFlow._run_async).
ParallelRun == kind["F"] = "AsyncParallelBatchFlow"

\* The traversal task i has terminated: it returned, raised or was cancelled.
Terminated(i) == tasks[i].st \in {"done", "failed", "cancelled"} \/ Returned(i)

\* C11: when a traversal of a parallel batch flow fails, the run reports the
\* failure to its caller only after every sibling traversal that was started has
\* terminated; no sibling is still running once the failure is reported.
C11_FailureAfterSiblingsSettle ==
  (ParallelRun /\ tasks[0].st = "failed") =>
     \A i \in 1..tasks[0].stack[1].bi : Terminated(i)

\* C12: in a parallel batch flow in which no traversal fails, one traversal is
\* started per parameter map of the prepared list, the flow's post runs once,
\* after every traversal has returned, receiving the list and a null execute
\* result, and under every interleaving each traversal visits its nodes in
\* graph-walk order.
C12_ParallelTraversals ==
  (ParallelRun /\ Depth(0) >= 1 /\ \A t \in Tasks : tasks[t].st # "failed") =>
    LET list == batches["F"]
        root == tasks[0].stack[1]
    IN  /\ root.pc # "prep" =>
             /\ root.bi = Len(list)
             /\ \A i \in 1..MaxBatch : (tasks[i].st # "idle") <=> (i <= Len(list))
        /\ \A i \in 1..MaxBatch : tasks[i].st # "idle" =>
             /\ tasks[i].stack[1].batch = i
             /\ tasks[i].stack[1].sel = Merge(params0["F"], list[i])
        /\ root.pc \in {"post", "done"} =>
             /\ \A i \in 1..Len(list) :
                  /\ tasks[i].st = "done"
                  /\ Depth(i) = 1
                  /\ tasks[i].stack[1].pc = "return"
             /\ root.ended = Len(list)
             /\ root.orchRes = NoneAct
             /\ root.pr.seq = list
        /\ root.ph \in PhasePrefixes
        /\ root.pc = "done" => root.ph = AllPhases
        /\ \A td \in OrchFrames :
             LET f == FrameAt(td)
                 lbl == IF f.posted \in {NoneAct, ""} THEN "default" ELSE f.posted
             IN  /\ f.ph \in PhasePrefixes
                 /\ f.prev # NoNode =>
                      /\ f.prevPh = AllPhases
                      /\ f.cur = IF lbl \in DOMAIN successors[f.prev]
                                 THEN successors[f.prev][lbl] ELSE NoNode

\* A parallel batch run over two different parameter maps has returned from its
\* post after both traversals made more than one visit.
C12_Witness ==
  /\ ParallelRun
  /\ tasks[0].st = "done"
  /\ Len(batches["F"]) = 2
  /\ batches["F"][1] # batches["F"][2]
  /\ \A i \in 1..2 : tasks[i].st = "done" /\ tasks[i].stack[1].visits >= 2

\* ------------------------------------------------ claims on failures
\* C13: in a sequential batch flow (sync or cooperative), a failure of the
\* traversal for Bi propagates out of the flow's run; no traversal for a later
\* parameter map is started and the flow's post is not invoked.
C13_BatchAbort ==
  (BatchRun /\ tasks[0].err # NoneVal) =>
    LET st == tasks[0].stack
    IN  /\ tasks[0].st = "failed"
        /\ Depth(0) >= 2
        /\ st[1].pc = "orch"
        /\ st[1].ph = <<"prep", "exec">>
        /\ st[2].batch = st[1].bi
        /\ st[1].ended = st[1].bi - 1
        /\ Top(0).pc = "raised"
        /\ tasks[0].err = Top(0).co[1].fbExc

\* The first of two traversals failed: the second was never started.
C13_Witness ==
  /\ BatchRun
  /\ tasks[0].st = "failed"
  /\ Len(batches["F"]) = 2
  /\ tasks[0].stack[1].bi = 1
  /\ tasks[0].stack[1].ended = 0

\* C14: a failure raised by prep or post is not retried (the phase has run once,
\* and execute and the fallback do not run after a prep failure); a failure
\* raised by prep, post or the fallback ends the traversal with that error: the
\* visit runs no further phase, no further node is visited, the post of every
\* enclosing flow is skipped and the error reaches the caller of the run.
C14_FailurePropagates ==
  tasks[0].err # NoneVal =>
    LET f == Top(0)
    IN  /\ tasks[0].st = "failed"
        /\ f.pc = "raised"
        /\ f.ph \in PhasePrefixes
        /\ tasks[0].err = PrepErr => (f.ph = <<"prep">> /\ f.co = <<>> /\ f.nExec = 0)
        /\ tasks[0].err = PostErr => f.ph = AllPhases
        /\ tasks[0].err \notin {PrepErr, PostErr} =>
             /\ f.ph = <<"prep", "exec">>
             /\ f.co[1].nFb = 1
             /\ tasks[0].err = f.co[1].fbExc
        /\ \A d \in 1..(Depth(0) - 1) :
             /\ tasks[0].stack[d].pc = "orch"
             /\ tasks[0].stack[d].ph = <<"prep", "exec">>

\* The post of a node inside the nested flow raised on the traversal's second visit.
C14_Witness ==
  /\ tasks[0].st = "failed"
  /\ tasks[0].err = PostErr
  /\ Depth(0) = 3
  /\ tasks[0].stack[2].visits = 2
  /\ tasks[0].stack[2].cur = "G"

\* C15: run() on an object of any async class fails with the "use run_async"
\* error, and no prep, exec or post of the object, or of a node inside it, runs.
C15_SyncRunRejected ==
  (Depth(0) >= 1 /\ ~tasks[0].stack[1].async
     /\ IsAsyncNode(KindOf(tasks[0].stack[1].cur))) =>
    /\ tasks[0].st # "done"
    /\ Depth(0) = 1
    /\ tasks[0].stack[1].ph = <<>>
    /\ tasks[0].st = "failed" => tasks[0].err = UseRunAsyncErr

C19_CancellationPropagates ==
  /\ \A td \in Frames :
       FrameAt(td).cancelled =>
         /\ tasks[td[1]].st = "cancelled"
         /\ tasks[td[1]].err = CancelledErr
         /\ td[2] = Depth(td[1])
         /\ FrameAt(td).pc = "raised"
         /\ \A j \in 1..Len(FrameAt(td).co) :
              /\ FrameAt(td).co[j].ex # CancelledErr
              /\ FrameAt(td).co[j].fbExc # CancelledErr
  /\ \A t \in Tasks : tasks[t].st = "cancelled" =>
       /\ Top(t).cancelled
       /\ \A d \in 1..(Depth(t) - 1) : tasks[t].stack[d].pc = "orch"

\* The traversal was cancelled inside the second attempt of an async node, after
\* the sleep that followed the failed first attempt.
C19_Witness ==
  /\ tasks[0].st = "cancelled"
  /\ Top(0).ph = <<"prep", "exec">>
  /\ Top(0).co[1].st = "try"
  /\ Top(0).co[1].k = 1
  /\ Top(0).co[1].nSleep = 1
  /\ Top(0).co[1].nFb = 0

\* ------------------------------------------------ claims on the two retry engines
IsOutcome(e) == e # "sleep"
Outcomes(log) == SelectSeq(log, IsOutcome)

\* C17: for the same attempt count, the same delay and the same sequence of
\* attempt outcomes and fallback outcome, the sync engine and the async engine
\* make the same calls of execute, sleep and the fallback in the same order and
\* end with the same result value or the same raised error.
C17_EnginesAgree ==
  (Depth(0) = 1 /\ Depth(1) = 1 /\ Len(Top(0).co) = 1 /\ Len(Top(1).co) = 1) =>
    LET a == Top(0).co[1]
        c == Top(1).co[1]
    IN  (Finished(a) /\ Finished(c) /\ Outcomes(a.log) = Outcomes(c.log)) =>
          /\ a.log = c.log
          /\ a.nExec = c.nExec
          /\ a.nSleep = c.nSleep
          /\ a.nFb = c.nFb
          /\ a.st = c.st
          /\ a.val = c.val
          /\ tasks[0].err = tasks[1].err
          /\ (Top(0).pc = "post" /\ Top(1).pc = "post") => Top(0).er = Top(1).er

\* Both engines, with two attempts and a delay, failed once, slept, failed again
\* and returned the fallback's value.
C17_Witness ==
  /\ Depth(0) = 1 /\ Depth(1) = 1
  /\ kind[Top(0).cur] = "Node" /\ kind[Top(1).cur] = "AsyncNode"
  /\ Top(0).pc = "post" /\ Top(1).pc = "post"
  /\ Top(0).co[1].log = <<"exec_fail", "sleep", "exec_fail", "fb_ok">>
  /\ Top(1).co[1].log = <<"exec_fail", "sleep", "exec_fail", "fb_ok">>

\* ------------------------------------------------ claims on the retry loop
\* C18: during the k-th attempt of execute within a visit (k from 0) the cur_retry
\* field the node's code reads equals k, for the sync retrying node and for the
\* async retrying node.
C18_AttemptIndexVisible ==
  \A td \in NodeVisits :
    LET f == FrameAt(td)
    IN  IsPlainVisit(f) =>
          \A j \in 1..Len(f.co) :
            /\ f.co[j].st = "try" => VisitRetry(f) = f.co[j].k
            /\ f.co[j].nExec > 0 => f.co[j].seenRetry = f.co[j].nExec - 1

\* The failed attempts among the first i calls of a log.
FailsUpTo(log, i) == Cardinality({m \in 1..i : log[m] = "exec_fail"})

\* C20: within one visit of a retrying node with N attempts and delay d, a failed
\* attempt k < N-1 is followed by exactly one sleep when d > 0 and by none when
\* d = 0, before attempt k+1; no sleep follows a successful attempt, and none
\* comes between the failed last attempt and the fallback.
C20_SleepBetweenAttempts ==
  \A td \in NodeVisits :
    LET f == FrameAt(td)
        N == Attempts(f)
        d == wait[f.cur]
    IN  \A j \in 1..Len(f.co) :
          LET c == f.co[j]
              log == c.log
          IN  /\ c.nSleep = Cardinality({m \in 1..Len(log) : log[m] = "sleep"})
              /\ c.st = "sleep" => (d > 0 /\ log[Len(log)] = "exec_fail" /\ c.nFail < N)
              /\ (c.st = "try" /\ Len(log) > 0 /\ d > 0) => log[Len(log)] = "sleep"
              /\ (c.st = "try" /\ Len(log) > 0 /\ d = 0) => log[Len(log)] = "exec_fail"
              /\ c.st = "fb" => log[Len(log)] = "exec_fail"
              /\ \A i \in 1..Len(log) :
                   /\ log[i] = "sleep" =>
                        /\ d > 0
                        /\ i > 1
                        /\ log[i - 1] = "exec_fail"
                        /\ FailsUpTo(log, i) < N
                        /\ i < Len(log) => log[i + 1] \in {"exec_ok", "exec_fail"}
                   /\ (log[i] = "exec_fail" /\ i < Len(log)) =>
                        IF FailsUpTo(log, i) = N
                        THEN log[i + 1] \in {"fb_ok", "fb_raise"}
                        ELSE IF d > 0 THEN log[i + 1] = "sleep"
                        ELSE log[i + 1] \in {"exec_ok", "exec_fail"}
                   /\ log[i] \in {"exec_ok", "fb_ok", "fb_raise"} => i = Len(log)

\* With two attempts and a delay: the first attempt failed, one sleep followed,
\* and the second attempt succeeded.
C20_Witness ==
  \E td \in NodeVisits :
    /\ IsPlainVisit(FrameAt(td))
    /\ Attempts(FrameAt(td)) = 2
    /\ wait[FrameAt(td).cur] = 1
    /\ Len(FrameAt(td).co) = 1
    /\ FrameAt(td).co[1].log = <<"exec_fail", "sleep", "exec_ok">>

\* ------------------------------------------------------ claims on the agents
FlowDone(t) == tasks[t].st = "done"

\* Some flow has not returned and none of those can take a step: each waits on
\* an empty queue.
Stuck ==
  /\ \E t \in AgentTasks : tasks[t].st = "running"
  /\ \A t \in AgentTasks : FlowDone(t) \/ Blocked(t)

\* The rounds of the game that was played: the round of the right guess.
Rounds == shared.past_guesses + 1

C26_ChatTerminates == shared.end_sent => ~Stuck

\* ------------------------------------------------------ claims on the wiring
\* The caller has made a wiring call.
HasCalled == "call" \in DOMAIN tasks[0]

\* The label a call wires: "default" for next(to) and `>>`.
EffLabel(c) == IF c.op \in {"next", "rshift"} THEN DefaultLabel ELSE c.label

\* C22: after from.next(to, label), label defaulting to "default", from's map
\* holds `to` under the label, its other labels and the maps of the other nodes
\* are as before, and the call returns `to`; `from >> to` and
\* `from - label >> to` leave the same state and return the same node as the
\* next() calls they stand for; a label that was already mapped is accepted and
\* now names the new target.
C22_WiringEffect ==
  (HasCalled /\ tasks[0].err = NoneVal) =>
    LET c == tasks[0].call
        b == tasks[0].before
        l == EffLabel(c)
    IN  /\ l \in DOMAIN successors[c.from]
        /\ successors[c.from][l] = c.to
        /\ DOMAIN successors[c.from] = DOMAIN b[c.from] \cup {l}
        /\ \A x \in DOMAIN b[c.from] : x # l => successors[c.from][x] = b[c.from][x]
        /\ \A o \in Objects : o # c.from => successors[o] = b[o]
        /\ tasks[0].res = c.to
        /\ c.op = "rshift" =>
             /\ successors = NextCall(b, c.from, c.to, DefaultLabel).succ
             /\ tasks[0].res = NextCall(b, c.from, c.to, DefaultLabel).ret
        /\ c.op = "sub_rshift" =>
             /\ successors = NextCall(b, c.from, c.to, c.label).succ
             /\ tasks[0].res = NextCall(b, c.from, c.to, c.label).ret

\* A `from - label >> to` has replaced the target of a label that was mapped to
\* another node, next to another label of the same node.
C22_Witness ==
  /\ HasCalled
  /\ tasks[0].err = NoneVal
  /\ tasks[0].call.op = "sub_rshift"
  /\ tasks[0].call.label = "a"
  /\ "a" \in DOMAIN tasks[0].before[tasks[0].call.from]
  /\ tasks[0].before[tasks[0].call.from]["a"] # tasks[0].call.to
  /\ DefaultLabel \in DOMAIN successors[tasks[0].call.from]
  /\ tasks[0].warned

\* C23: after any sequence of wiring calls every key of every successor map is
\* a non-empty string.
C23_KeysNonEmpty ==
  \A o \in Objects : \A l \in DOMAIN successors[o] : IsStr(l) /\ l # ""

\* ----------------------------------------------- claims on the diagnostics
\* C24: the lookup made for the node just visited emits the "flow ends"
\* diagnostic exactly when the looked-up label has no successor and the node's
\* successor map is not empty (never for an empty map); with or without the
\* diagnostic the traversal ends there without an error, having made the same
\* visits, and returns the action of the last visit.
C24_FlowEndsDiagnostic ==
  \A td \in OrchFrames :
    LET f == FrameAt(td)
    IN  f.prev # NoNode =>
          /\ f.warn <=> /\ LookupLabel(f.last) \notin DOMAIN successors[f.prev]
                        /\ DOMAIN successors[f.prev] # {}
          /\ LookupLabel(f.last) \notin DOMAIN successors[f.prev] =>
                /\ f.pc = "return"
                /\ f.cur = NoNode
                /\ f.last = f.posted
                /\ OrchResult(f) = f.posted
                /\ tasks[td[1]].st # "failed"
                /\ tasks[td[1]].err = NoneVal
          /\ f.warn => f.pc = "return"

\* A traversal has ended on the diagnostic after more than one visit, over a
\* node whose map lacks only the label looked up.
C24_Witness ==
  \E td \in OrchFrames :
    /\ FrameAt(td).warn
    /\ FrameAt(td).pc = "return"
    /\ FrameAt(td).visits >= 2
    /\ FrameAt(td).last \notin {NoneAct, "", DefaultLabel}

\* A traversal has ended without the diagnostic on a node that has no successors.
C24_WitnessSilent ==
  \E td \in OrchFrames :
    /\ ~FrameAt(td).warn
    /\ FrameAt(td).pc = "return"
    /\ FrameAt(td).prev # NoNode
    /\ DOMAIN successors[FrameAt(td).prev] = {}

\* ------------------------------------------------- claims on a flow's params
\* C25: the dict a flow's params field names holds the same keys and values as
\* before the run, during and after a run of any flow kind, with per-batch
\* parameter maps and with inner nodes that change the params they received in
\* place or assign the field; this holds of the flow that is run and of the
\* flow nested in it.
C25_FlowParamsKept ==
  /\ \A o \in FlowObjs : heap[objParams[o]] = params0[o]
  /\ \A t \in Tasks :
       (Depth(t) > 0 /\ tasks[t].stack[1].root /\ tasks[t].stack[1].cur \in FlowObjs) =>
          heap[VisitParams(tasks[t].stack[1])] = params0[tasks[t].stack[1].cur]

\* A traversal of a batch run has ended on a params dict that an inner node
\* changed in place, the flow's own params and the batch's map not empty.
C25_Witness ==
  /\ kind["F"] \in BatchFlowKinds
  /\ params0["F"] # EmptyMap
  /\ Len(batches["F"]) >= 1
  /\ batches["F"][1] # EmptyMap
  /\ \E td \in OrchFrames :
       /\ FrameAt(td).pc = "return"
       /\ FrameAt(td).visits >= 2
       /\ heap[FrameAt(td).np]["k"] = Dirty

\* --------------------------------------------- claims on an empty retry range
\* C27: a Node or an AsyncNode constructed with max_retries = 0 is accepted; a
\* visit of it calls neither execute nor the fallback hook, raises nothing, and
\* its post receives None as the execute result.
C27_ZeroAttempts ==
  \A td \in NodeVisits :
    LET f == FrameAt(td)
    IN  (IsPlainVisit(f) /\ Attempts(f) = 0) =>
          /\ f.nExec = 0
          /\ \A j \in 1..Len(f.co) :
               /\ f.co[j].nExec = 0
               /\ f.co[j].nFb = 0
               /\ f.co[j].log = <<>>
               /\ f.co[j].st \in {"new", "done"}
          /\ tasks[td[1]].st # "failed"
          /\ f.pc \in {"prep", "post", "done"}
          /\ f.pc \in {"post", "done"} => (~f.er.batch /\ f.er.val = NoneVal)
          /\ f.pc = "done" => f.got = f.er

\* The post of an AsyncNode with max_retries = 0 has returned.
C27_Witness ==
  \E td \in NodeVisits :
    /\ KindOf(FrameAt(td).cur) = "AsyncNode"
    /\ Attempts(FrameAt(td)) = 0
    /\ FrameAt(td).pc = "done"
    /\ FrameAt(td).ph = <<"prep", "exec", "post">>
    /\ FrameAt(td).got.val = NoneVal

\* The same for the sync Node.
C27_WitnessSync ==
  \E td \in NodeVisits :
    /\ KindOf(FrameAt(td).cur) = "Node"
    /\ Attempts(FrameAt(td)) = 0
    /\ FrameAt(td).pc = "done"
    /\ FrameAt(td).got.val = NoneVal

====
